---- MODULE Spec2Model ----
(***************************************************************************)
(* Model of the dashboard-px sales pipeline (src/py/data_loader.py,        *)
(* src/py/data_transformer.py, src/py/streamlit_app.py).                   *)
(*                                                                         *)
(* Data representation                                                     *)
(*   - a text is a sequence of one-character strings;                      *)
(*   - a decimal number is a record [m, e] standing for m / 10^e, kept     *)
(*     normalised (no trailing zero in the fraction), so that equality of  *)
(*     records is equality of numbers;                                     *)
(*   - a spreadsheet cell is a record [t, s, m, e]: t is the Python type   *)
(*     pandas holds the value in ("str", "int", "float", "nan");           *)
(*   - NULL is the missing value (NaN / None / NaT) of a name-like column. *)
(***************************************************************************)
EXTENDS Integers, Sequences, FiniteSets, TLC

VARIABLES
    sources,      \* the source descriptors (loja_configs) and the files behind them
    pc,           \* position of the request: "start", "stopped", "done"
    via,          \* who called load_data: "none", "dashboard", "direct"
    periodos,     \* periodos_selecionados as passed to load_data
    df_master,    \* the record set load_data hands to the three aggregations
    result,       \* what load_data returned (or that it raised)
    raw,          \* numeric cleaning: the cell as first read from the file
    cell,         \* numeric cleaning: the cell as the column holds it now
    passes,       \* numeric cleaning: how many times the normaliser has run
    validation,   \* quality report: <<>> or <<the dict validate_data_quality returned>>
    warnings,     \* quality report: what show_validation_warnings put on the screen
    session,      \* st.session_state: the keys "authenticated" and "user"
    db,           \* the PostgreSQL side: connection pool, queries, the users table
    reply,        \* the last return (or exception) of authenticate_user / test_connection
    page,         \* what the login and incentives pages did last
    last_auth,    \* the most recent of the calls login(user) and logout()
    kpi,          \* KPI tables: the metrics table given and the map built from it
    connector,    \* DatabaseConnector: the singleton, its pool, the calls in progress
    incent        \* incentives page: the employee tables and what was derived from them

qualVars == <<validation, warnings>>
sessVars == <<session, db, reply, page, last_auth>>
extVars == <<kpi, connector, incent>>

vars == <<sources, pc, via, periodos, df_master, result, raw, cell, passes,
          validation, warnings, session, db, reply, page, last_auth,
          kpi, connector, incent>>

NULL == "<NA>"

-----------------------------------------------------------------------------
(* Bounds of the model *)

MaxLen == 5        \* longest enumerated text of a numeric cell
MaxPasses == 2     \* how many times the numeric cleaning is re-applied
MaxRows == 2       \* rows over all source files of one request

-----------------------------------------------------------------------------
(* Texts and decimal numbers *)

DigitChars == <<"0", "1", "2", "3", "4", "5", "6", "7", "8", "9">>

IsDigit(c) == \E i \in 1..10 : DigitChars[i] = c

DigitVal(c) == (CHOOSE i \in 1..10 : DigitChars[i] = c) - 1

AllDigits(s) == \A i \in 1..Len(s) : IsDigit(s[i])

RECURSIVE DigitsVal(_)
DigitsVal(s) ==
    IF s = <<>> THEN 0
    ELSE 10 * DigitsVal(SubSeq(s, 1, Len(s) - 1)) + DigitVal(s[Len(s)])

RECURSIVE Pow10(_)
Pow10(n) == IF n = 0 THEN 1 ELSE 10 * Pow10(n - 1)

RECURSIVE NatToStr(_)
NatToStr(n) ==
    IF n < 10 THEN <<DigitChars[n + 1]>>
    ELSE NatToStr(n \div 10) \o <<DigitChars[(n % 10) + 1]>>

RECURSIVE PadLeft(_, _)
PadLeft(s, n) == IF Len(s) >= n THEN s ELSE PadLeft(<<"0">> \o s, n)

Abs(x) == IF x < 0 THEN -x ELSE x

RECURSIVE Norm(_, _)
Norm(m, e) ==
    IF e > 0 /\ m % 10 = 0 THEN Norm(m \div 10, e - 1)
    ELSE [m |-> m, e |-> e]

Zero == [m |-> 0, e |-> 0]

IntNum(n) == [m |-> n, e |-> 0]

Max(a, b) == IF a >= b THEN a ELSE b

NumAdd(a, b) ==
    LET E == Max(a.e, b.e)
    IN  Norm(a.m * Pow10(E - a.e) + b.m * Pow10(E - b.e), E)

RECURSIVE NumSum(_)
NumSum(s) == IF s = <<>> THEN Zero ELSE NumAdd(s[1], NumSum(Tail(s)))

NumTimes(a, k) == Norm(a.m * k, a.e)

RECURSIVE IndexOf(_, _, _)
IndexOf(s, c, i) ==
    IF i > Len(s) THEN 0
    ELSE IF s[i] = c THEN i
    ELSE IndexOf(s, c, i + 1)

(* str.split(sep) *)
RECURSIVE Split(_, _)
Split(s, sep) ==
    LET i == IndexOf(s, sep, 1)
    IN  IF i = 0 THEN <<s>>
        ELSE <<SubSeq(s, 1, i - 1)>> \o Split(SubSeq(s, i + 1, Len(s)), sep)

-----------------------------------------------------------------------------
(* Cells *)

StrCell(s) == [t |-> "str", s |-> s, m |-> 0, e |-> 0]
IntCell(n) == [t |-> "int", s |-> <<>>, m |-> n, e |-> 0]
FloatCell(n) == [t |-> "float", s |-> <<>>, m |-> n.m, e |-> n.e]
NaNCell == [t |-> "nan", s |-> <<>>, m |-> 0, e |-> 0]

IsNaN(c) == c.t = "nan"

\* the number a numeric cell holds
NumOf(c) == [m |-> c.m, e |-> c.e]

(* str(x) of the Python object a cell holds: Series.astype(str) *)
astype_str(c) ==
    CASE c.t = "str" -> c.s
      [] c.t = "int" ->
            (IF c.m < 0 THEN <<"-">> ELSE <<>>) \o NatToStr(Abs(c.m))
      [] c.t = "float" ->
            (IF c.m < 0 THEN <<"-">> ELSE <<>>)
                \o NatToStr(Abs(c.m) \div Pow10(c.e))
                \o <<".">>
                \o (IF c.e = 0 THEN <<"0">>
                    ELSE PadLeft(NatToStr(Abs(c.m) % Pow10(c.e)), c.e))
      [] OTHER -> <<"n", "a", "n">>

(* Series.str.replace(old, new, regex=False) on one value; new is a text *)
RECURSIVE str_replace(_, _, _)
str_replace(s, old, new) ==
    IF s = <<>> THEN <<>>
    ELSE (IF Head(s) = old THEN new ELSE <<Head(s)>>)
            \o str_replace(Tail(s), old, new)

(* The decimal literals pd.to_numeric accepts over the model's alphabet:   *)
(* [-] digits [. digits*]  |  [-] . digits                                 *)
IsNumericLiteral(s) ==
    LET u == IF s # <<>> /\ Head(s) = "-" THEN Tail(s) ELSE s
        d == IndexOf(u, ".", 1)
        ip == IF d = 0 THEN u ELSE SubSeq(u, 1, d - 1)
        fp == IF d = 0 THEN <<>> ELSE SubSeq(u, d + 1, Len(u))
    IN  /\ AllDigits(ip)
        /\ AllDigits(fp)
        /\ Len(ip) + Len(fp) > 0

IsIntegerLiteral(s) == IsNumericLiteral(s) /\ IndexOf(s, ".", 1) = 0

LiteralValue(s) ==
    LET neg == s # <<>> /\ Head(s) = "-"
        u == IF neg THEN Tail(s) ELSE s
        d == IndexOf(u, ".", 1)
        ip == IF d = 0 THEN u ELSE SubSeq(u, 1, d - 1)
        fp == IF d = 0 THEN <<>> ELSE SubSeq(u, d + 1, Len(u))
        mag == DigitsVal(ip \o fp)
    IN  Norm(IF neg THEN -mag ELSE mag, Len(fp))

(* pd.to_numeric(value, errors='coerce') on one text: a float cell, or NaN *)
to_numeric_str(s) ==
    IF IsNumericLiteral(s) THEN FloatCell(LiteralValue(s)) ELSE NaNCell

(* pd.to_numeric(value, errors='coerce') on one cell of any type *)
to_numeric(c) ==
    CASE c.t = "str" -> to_numeric_str(c.s)
      [] c.t = "int" -> c
      [] c.t = "float" -> c
      [] OTHER -> NaNCell

(* Series.fillna(0) on one cell *)
fillna0(c) == IF IsNaN(c) THEN FloatCell(Zero) ELSE c

\* a plausible slip: the thousands separator is left in place
clean_numeric_str_keeps_dots(c) == str_replace(astype_str(c), ",", <<".">>)

(* data_loader.py:125-126: drop every '.', then turn every ',' into '.' *)
clean_numeric_str(c) ==
    str_replace(str_replace(astype_str(c), ".", <<>>), ",", <<".">>)

(* data_loader.py:125-127 on one cell: the value the column holds afterwards *)
clean_numeric(c) == fillna0(to_numeric_str(clean_numeric_str(c)))

(* data_transformer.py:89 on one cell *)
db_clean_numeric(c) == fillna0(to_numeric(c))

(* The dtype pd.to_numeric gives a column depends on the whole column: a   *)
(* value parsed from an integer literal is held as int64 when every value  *)
(* of the column is one, and as float64 otherwise.                         *)
HeldAs(c, integral) ==
    IF integral /\ c.e = 0 /\ ~IsNaN(c)
    THEN {FloatCell(NumOf(c)), IntCell(c.m)}
    ELSE {c}

-----------------------------------------------------------------------------
(* Numeric cleaning of one cell, applied and re-applied *)

Alphabet == {"0", "1", ".", ",", "x"}

Texts(n) == UNION {[1..k -> Alphabet] : k \in 0..n}

ExampleTexts ==
    { <<"1", ".", "2", "3", "4", ",", "5", "6">>,
      <<"1", ".", "0", "0", "0">>,
      <<"1", "0", "0", ",", "0", "0">>,
      <<"6", "0", ",", "0", "0">>,
      <<"-", "5">>,
      <<"-", "1", ".", "5", "0", "0", ",", "5">> }

ExampleNumbers ==
    { IntCell(10), IntCell(0), IntCell(-5),
      FloatCell([m |-> 125, e |-> 1]), FloatCell([m |-> 10, e |-> 0]),
      FloatCell([m |-> -5, e |-> 1]), FloatCell([m |-> 1234, e |-> 3]),
      NaNCell }

RawCells ==
    {StrCell(s) : s \in Texts(MaxLen) \cup ExampleTexts} \cup ExampleNumbers

(* no quality report was asked for *)
IdleQuality ==
    /\ validation = <<>>
    /\ warnings = [shown |-> FALSE, msgs |-> <<>>]

(* st.session_state.get("user", None) when the key is absent *)
NoUser == [id |-> 0, name |-> "", email |-> <<>>, role |-> ""]

(* st.session_state without keys: "authenticated" reads as False *)
EmptySession == [authenticated |-> FALSE, user |-> NoUser, keys |-> {}]

(* a fresh browser session, no page opened, the database not involved *)
IdleSession ==
    /\ session = EmptySession
    /\ db = [pool |-> "ok", query |-> "ok", users |-> {}]
    /\ reply = [op |-> "none"]
    /\ page = "none"
    /\ last_auth = [call |-> "none", user |-> NoUser]

(* no KPI map was built, no connector constructed, no incentives loaded *)
IdleKpi == kpi = [built |-> FALSE]

IdleConnector == connector = [instance |-> FALSE]

IdleIncent == incent = [loaded |-> FALSE]

IdleExt == IdleKpi /\ IdleConnector /\ IdleIncent

IdlePipeline ==
    /\ sources = <<>>
    /\ pc = "idle"
    /\ via = "none"
    /\ periodos = {}
    /\ df_master = [ok |-> FALSE, cols |-> {}, rows |-> <<>>]
    /\ result = [status |-> "none"]

InitNum ==
    /\ raw \in RawCells
    /\ cell = raw
    /\ passes = <<>>
    /\ IdlePipeline
    /\ IdleQuality
    /\ IdleSession
    /\ IdleExt

(* read_and_clean_xlsx, lines 119-127, over the column this cell is in *)
CleanXlsx ==
    /\ Len(passes) < MaxPasses
    /\ cell' \in HeldAs(clean_numeric(cell),
                         IsIntegerLiteral(clean_numeric_str(cell)))
    /\ passes' = Append(passes, "xlsx")
    /\ UNCHANGED <<raw, sources, pc, via, periodos, df_master, result>>
    /\ UNCHANGED <<qualVars, sessVars, extVars>>

(* DataTransformer.normalize_sales_data, lines 86-89, over the same column *)
CleanDB ==
    /\ Len(passes) < MaxPasses
    /\ cell' \in HeldAs(db_clean_numeric(cell),
                         cell.t = "str" /\ IsIntegerLiteral(cell.s))
    /\ passes' = Append(passes, "db")
    /\ UNCHANGED <<raw, sources, pc, via, periodos, df_master, result>>
    /\ UNCHANGED <<qualVars, sessVars, extVars>>

NextNum == CleanXlsx \/ CleanDB

SpecNum == InitNum /\ [][NextNum]_vars

-----------------------------------------------------------------------------
(* Source files and data frames                                            *)
(*                                                                         *)
(* A source descriptor is one entry of loja_configs together with the file *)
(* behind its path: [name, filter, exists, cols, rows].  cols is the set   *)
(* of columns of the sheet after the renaming of lines 79-96; a row has    *)
(* every field, and the field of a column the sheet lacks is ignored.      *)
(* A data frame is [cols, rows]; a column a frame has only because another *)
(* frame of the concatenation had it holds the missing value.              *)

NaT == [y |-> 0, m |-> 0]
NoDate == [y |-> 0, m |-> 0, d |-> 0]

NumMul(a, b) == Norm(a.m * b.m, a.e + b.e)

NumSub(a, b) == NumAdd(a, [m |-> -b.m, e |-> b.e])

NumAbs(a) == [m |-> Abs(a.m), e |-> a.e]

UpperChars == <<"A", "B", "J", "L", "O">>
LowerChars == <<"a", "b", "j", "l", "o">>

(* str.lower() on one character *)
LowerChar(c) ==
    IF \E i \in 1..Len(UpperChars) : UpperChars[i] = c
    THEN LowerChars[CHOOSE i \in 1..Len(UpperChars) : UpperChars[i] = c]
    ELSE c

(* Series.str.contains(pat, case=False, na=False) on one value, for a      *)
(* pattern without regular-expression metacharacters; <<>> is the empty    *)
(* cell (NaN), which na=False makes a non-match                            *)
str_contains(text, pat) ==
    /\ text # <<>>
    /\ \E i \in 1..(Len(text) - Len(pat) + 1) :
          \A j \in 1..Len(pat) : LowerChar(text[i + j - 1]) = LowerChar(pat[j])

\* a plausible slip: the total value is not among the required columns
required_cols_without_total == {"Vendedor", "Produto", "Quantidade"}

required_cols == {"Vendedor", "Produto", "Quantidade", "Valor_Total"}

DaysInMonth(y, m) ==
    IF m \in {4, 6, 9, 11} THEN 30
    ELSE IF m = 2
         THEN (IF y % 4 = 0 /\ (y % 100 # 0 \/ y % 400 = 0) THEN 29 ELSE 28)
         ELSE 31

(* pd.to_datetime(value, format='%Y/%m/%d', errors='coerce') on one text *)
to_datetime(s) ==
    LET p == Split(s, "/")
    IN  IF /\ Len(p) = 3
           /\ \A i \in 1..3 : AllDigits(p[i])
           /\ Len(p[1]) = 4
           /\ Len(p[2]) \in 1..2
           /\ Len(p[3]) \in 1..2
           /\ DigitsVal(p[2]) \in 1..12
           /\ DigitsVal(p[3]) \in 1..DaysInMonth(DigitsVal(p[1]), DigitsVal(p[2]))
        THEN [y |-> DigitsVal(p[1]), m |-> DigitsVal(p[2]), d |-> DigitsVal(p[3])]
        ELSE NoDate

(* Series.dt.to_period('M') on one value *)
to_period(d) == IF d = NoDate THEN NaT ELSE [y |-> d.y, m |-> d.m]

MonthAbbr ==
    <<"Jan", "Feb", "Mar", "Apr", "May", "Jun",
      "Jul", "Aug", "Sep", "Oct", "Nov", "Dec">>

(* strftime('%b/%y') of a date or period; NaT gives the missing value *)
strftime_b_y(p) ==
    IF p.y = 0 THEN <<>>
    ELSE <<MonthAbbr[p.m], "/">> \o PadLeft(NatToStr(p.y % 100), 2)

(* parse_periodos on one row *)
parse_periodos(r) ==
    LET data == to_datetime(r.Mes)
    IN  [r EXCEPT !.Data = data,
                  !.Periodo = to_period(data),
                  !.Periodo_Display = strftime_b_y(data)]

None == [ok |-> FALSE, cols |-> {}, rows |-> <<>>]

(* one row as pd.read_excel delivers it, widened to the fields of a frame; *)
(* fields of columns the sheet lacks are blanked                           *)
FrameRow(src, r) ==
    LET has(c) == c \in src.cols
    IN  [Vendedor |-> IF has("Vendedor") THEN r.Vendedor ELSE NULL,
         Produto |-> IF has("Produto") THEN r.Produto ELSE NULL,
         Descricao |-> IF has("Descricao") THEN r.Descricao ELSE NULL,
         N_Doc |-> IF has("N_Doc") THEN r.N_Doc ELSE NULL,
         Mes |-> IF has("Mes") THEN r.Mes ELSE <<>>,
         Cliente |-> IF has("Cliente") THEN r.Cliente ELSE <<>>,
         Quantidade |-> IF has("Quantidade") THEN r.Quantidade ELSE NaNCell,
         Valor_Total |-> IF has("Valor_Total") THEN r.Valor_Total ELSE NaNCell,
         Valor_Unidade |-> IF has("Valor_Unidade") THEN r.Valor_Unidade ELSE NaNCell,
         Valor_Calculado |-> NaNCell,
         Diferenca |-> NaNCell,
         Data |-> NoDate,
         Periodo |-> NaT,
         Periodo_Display |-> <<>>,
         Nome_Loja |-> <<>>]

(* lines 119-127 on one row: every numeric column the sheet has *)
clean_row(src, r) ==
    [r EXCEPT
        !.Quantidade = IF "Quantidade" \in src.cols
                       THEN clean_numeric(r.Quantidade) ELSE @,
        !.Valor_Total = IF "Valor_Total" \in src.cols
                        THEN clean_numeric(r.Valor_Total) ELSE @,
        !.Valor_Unidade = IF "Valor_Unidade" \in src.cols
                          THEN clean_numeric(r.Valor_Unidade) ELSE @]

(* line 130: df.dropna(subset=['Vendedor', 'Produto']) *)
dropna_required(rows) ==
    SelectSeq(rows, LAMBDA r : r.Vendedor # NULL /\ r.Produto # NULL)

(* lines 135-137 on one row *)
cross_check(src, r) ==
    IF "Valor_Unidade" \in src.cols
    THEN LET calc == NumMul(NumOf(r.Valor_Unidade), NumOf(r.Quantidade))
         IN  [r EXCEPT !.Valor_Calculado = FloatCell(calc),
                       !.Diferenca =
                           FloatCell(NumAbs(NumSub(NumOf(r.Valor_Total), calc)))]
    ELSE r

MapSeq(s, Op(_)) == [i \in 1..Len(s) |-> Op(s[i])]

(* lines 143-146: parse_periodos when the sheet has a Mes column *)
date_rows(src, rows) ==
    IF "Mes" \in src.cols THEN MapSeq(rows, parse_periodos) ELSE rows

(* lines 148-150: the store tag is the filter text *)
tag_rows(src, rows) ==
    IF src.filter # <<>>
    THEN MapSeq(rows, LAMBDA r : [r EXCEPT !.Nome_Loja = src.filter])
    ELSE rows

(* the columns of the frame read_and_clean_xlsx returns *)
frame_cols(src) ==
    src.cols
        \cup (IF "Valor_Unidade" \in src.cols
              THEN {"Valor_Calculado", "Diferenca"} ELSE {})
        \cup (IF "Mes" \in src.cols
              THEN {"Data", "Periodo", "Periodo_Display"} ELSE {})
        \cup (IF src.filter # <<>> THEN {"Nome_Loja"} ELSE {})

(* lines 119-152 over the rows that passed the store filter *)
clean_frame(src, kept) ==
    [ok |-> TRUE,
     cols |-> frame_cols(src),
     rows |-> tag_rows(src,
                date_rows(src,
                  MapSeq(dropna_required(MapSeq(kept, LAMBDA r : clean_row(src, r))),
                         LAMBDA r : cross_check(src, r))))]

(* lines 107-114: the store filter, applied when a filter is given and the *)
(* sheet has a Cliente column                                              *)
filter_rows(src, rows) ==
    IF src.filter # <<>> /\ "Cliente" \in src.cols
    THEN SelectSeq(rows, LAMBDA r : str_contains(r.Cliente, src.filter))
    ELSE rows

after_filter(src, kept) ==
    IF src.filter # <<>> /\ "Cliente" \in src.cols /\ kept = <<>>
    THEN None                                                  \* lines 112-114
    ELSE clean_frame(src, kept)

(* read_and_clean_xlsx(file_path, loja_filter, sheet_name): None, or the   *)
(* cleaned frame                                                           *)
read_and_clean_xlsx(src) ==
    IF ~src.exists THEN None                                   \* lines 67-69
    ELSE IF ~(required_cols \subseteq src.cols) THEN None      \* lines 98-105
    ELSE after_filter(src,
            filter_rows(src, MapSeq(src.rows, LAMBDA r : FrameRow(src, r))))

\* a plausible slip: a source that came back as None is appended as well
keep_frame_keeps_none(df, name) == <<df>>

(* lines 259-264: a frame that came back is given the store's name when it *)
(* has no Nome_Loja column yet, and is kept; None is skipped               *)
keep_frame(df, name) ==
    IF ~df.ok THEN <<>>
    ELSE IF "Nome_Loja" \in df.cols THEN <<df>>
    ELSE <<[df EXCEPT
              !.cols = @ \cup {"Nome_Loja"},
              !.rows = MapSeq(@, LAMBDA r : [r EXCEPT !.Nome_Loja = name])]>>

RECURSIVE all_dfs(_)
all_dfs(srcs) ==
    IF srcs = <<>> THEN <<>>
    ELSE keep_frame(read_and_clean_xlsx(Head(srcs)), Head(srcs).name)
            \o all_dfs(Tail(srcs))

\* a plausible slip: the later stores are put in front
RECURSIVE concat_reversed(_)
concat_reversed(dfs) ==
    IF Len(dfs) = 1 THEN Head(dfs)
    ELSE [ok |-> TRUE,
          cols |-> UNION {dfs[i].cols : i \in 1..Len(dfs)},
          rows |-> concat_reversed(Tail(dfs)).rows \o Head(dfs).rows]

(* pd.concat(all_dfs, ignore_index=True) *)
RECURSIVE concat(_)
concat(dfs) ==
    IF Len(dfs) = 1 THEN Head(dfs)
    ELSE [ok |-> TRUE,
          cols |-> UNION {dfs[i].cols : i \in 1..Len(dfs)},
          rows |-> Head(dfs).rows \o concat(Tail(dfs)).rows]

concat_or_none(dfs) == IF dfs = <<>> THEN None ELSE concat(dfs)

(* load_and_combine_data(loja_configs): None, or the master frame *)
load_and_combine_data(srcs) == concat_or_none(all_dfs(srcs))

-----------------------------------------------------------------------------
(* Ordering of group keys (pandas sorts the keys of a groupby) *)

NameOrder == <<"Ana", "Bruno", "D1", "D2", "Filtro", "Oleo", "P1", "P2">>

Rank(list, x) == CHOOSE i \in 1..Len(list) : list[i] = x

NameLess(a, b) == Rank(NameOrder, a) < Rank(NameOrder, b)

CharOrder == <<" ", "A", "B", "J", "L", "O", "a", "b", "j", "l", "o">>

RECURSIVE TextLess(_, _)
TextLess(a, b) ==
    IF b = <<>> THEN FALSE
    ELSE IF a = <<>> THEN TRUE
    ELSE IF Head(a) = Head(b) THEN TextLess(Tail(a), Tail(b))
    ELSE Rank(CharOrder, Head(a)) < Rank(CharOrder, Head(b))

PeriodLess(a, b) == a.y < b.y \/ (a.y = b.y /\ a.m < b.m)

RECURSIVE SetToSeq(_)
SetToSeq(S) ==
    IF S = {} THEN <<>>
    ELSE LET x == CHOOSE x \in S : TRUE
         IN  <<x>> \o SetToSeq(S \ {x})

Range(s) == {s[i] : i \in 1..Len(s)}

(* sorted(set) under the given order *)
Sorted(S, Less(_, _)) == SortSeq(SetToSeq(S), Less)

-----------------------------------------------------------------------------
(* Aggregations.  A returned table is [err, cols, rows]: err is "" or the  *)
(* exception the call raised; cols is the column list.                     *)

(* A float64 quotient n / d before and after the clean-up of lines         *)
(* 199-200: k is "fin", "inf", "ninf" or "nan"                             *)
QZero == [k |-> "fin", n |-> Zero, d |-> IntNum(1)]

(* Series / Series on one row: IEEE division, which never raises *)
Divide(n, d) ==
    IF d.m # 0 THEN [k |-> "fin", n |-> n, d |-> d]
    ELSE IF n.m > 0 THEN [k |-> "inf", n |-> Zero, d |-> IntNum(1)]
    ELSE IF n.m < 0 THEN [k |-> "ninf", n |-> Zero, d |-> IntNum(1)]
    ELSE [k |-> "nan", n |-> Zero, d |-> IntNum(1)]

(* .replace([inf, -inf], 0) *)
replace_inf(q) == IF q.k \in {"inf", "ninf"} THEN QZero ELSE q

(* .fillna(0) on a quotient *)
fillna_q(q) == IF q.k = "nan" THEN QZero ELSE q

Raised(e) == [err |-> e, cols |-> <<>>, rows |-> <<>>]

Table(cols, rows) == [err |-> "", cols |-> cols, rows |-> rows]

(* 'sum' of one column over the rows of a group *)
SumOf(rows, Col(_)) == NumSum(MapSeq(rows, LAMBDA r : NumOf(Col(r))))

\* a plausible slip: 'count' instead of 'nunique'
count_doc(rows) == Cardinality({i \in 1..Len(rows) : rows[i].N_Doc # NULL})

(* 'nunique' of N_Doc over the rows of a group: distinct non-null values *)
nunique_doc(rows) == Cardinality({rows[i].N_Doc : i \in 1..Len(rows)} \ {NULL})

\* a plausible slip: only NaN is cleaned up, infinities stay
ticket_medio_keeps_inf(venda, os) == fillna_q(Divide(venda, IntNum(os)))

(* lines 195-200 for one salesperson *)
ticket_medio(venda, os) == fillna_q(replace_inf(Divide(venda, IntNum(os))))

performance(total, os) == fillna_q(replace_inf(Divide(total, IntNum(os))))

vendedor_row(v, rows) ==
    LET g == SelectSeq(rows, LAMBDA r : r.Vendedor = v)
        total == SumOf(g, LAMBDA r : r.Quantidade)
        venda == SumOf(g, LAMBDA r : r.Valor_Total)
        os == nunique_doc(g)
    IN  [Consultor |-> v,
         Total_Produtos |-> total,
         Venda_RS |-> venda,
         Total_OS |-> os,
         Ticket_Medio |-> ticket_medio(venda, os),
         Performance |-> performance(total, os)]

vendedor_cols ==
    <<"Consultor", "Total_Produtos", "Venda_RS", "Total_OS",
      "Ticket_Medio", "Performance">>

(* calcular_metricas_vendedor(df) *)
calcular_metricas_vendedor(df) ==
    IF df.rows = <<>> THEN Table(vendedor_cols, <<>>)          \* lines 181-183
    ELSE IF ~({"Vendedor", "Quantidade", "Valor_Total", "N_Doc"} \subseteq df.cols)
         THEN Raised("KeyError")                                \* lines 186-190
    ELSE
      LET keys == Sorted({df.rows[i].Vendedor : i \in 1..Len(df.rows)} \ {NULL},
                         NameLess)
      IN  Table(<<"Consultor", "Total_Produtos", "Venda_RS", "Total_OS",
                  "Ticket_Medio", "Performance">>,
                MapSeq(keys, LAMBDA v : vendedor_row(v, df.rows)))

produto_cols ==
    <<"Produto", "Descricao", "Quantidade_Total", "Valor_Total",
      "Penetracao_Produto">>

(* lines 237-240 for one product row *)
penetracao(q, total_geral) ==
    IF total_geral.m > 0
    THEN [k |-> "fin", n |-> NumTimes(q, 100), d |-> total_geral]
    ELSE QZero

(* the keys of groupby(['Produto', 'Descricao']): rows with a missing key  *)
(* are left out of every group (dropna=True is the default)                *)
produto_keys(rows) ==
    Sorted({<<rows[i].Produto, rows[i].Descricao>> : i \in 1..Len(rows)}
                \ {k \in {<<rows[i].Produto, rows[i].Descricao>> : i \in 1..Len(rows)} :
                        k[1] = NULL \/ k[2] = NULL},
           LAMBDA a, b : NameLess(a[1], b[1])
                            \/ (a[1] = b[1] /\ NameLess(a[2], b[2])))

produto_row(key, rows, total_geral) ==
    LET g == SelectSeq(rows, LAMBDA r : r.Produto = key[1] /\ r.Descricao = key[2])
        q == SumOf(g, LAMBDA r : r.Quantidade)
    IN  [Produto |-> key[1],
         Descricao |-> key[2],
         Quantidade_Total |-> q,
         Valor_Total |-> SumOf(g, LAMBDA r : r.Valor_Total),
         Penetracao_Produto |-> penetracao(q, total_geral)]

(* calcular_metricas_produto(df) *)
calcular_metricas_produto(df) ==
    IF df.rows = <<>> THEN Table(produto_cols, <<>>)           \* lines 222-224
    ELSE IF ~({"Produto", "Descricao", "Quantidade", "Valor_Total"} \subseteq df.cols)
         THEN Raised("KeyError")                                \* lines 227-232
    ELSE
      LET total_geral == SumOf(df.rows, LAMBDA r : r.Quantidade)
      IN  Table(<<"Produto", "Descricao", "Quantidade_Total", "Valor_Total",
                  "Penetracao_Produto">>,
                MapSeq(produto_keys(df.rows),
                       LAMBDA k : produto_row(k, df.rows, total_geral)))

(* str(Period('2025-01', 'M')) *)
period_str(p) ==
    PadLeft(NatToStr(p.y), 4) \o <<"-">> \o PadLeft(NatToStr(p.m), 2)

temporais_keys(rows) ==
    Sorted({k \in {<<rows[i].Periodo, rows[i].Nome_Loja>> : i \in 1..Len(rows)} :
                k[1] # NaT /\ k[2] # <<>>},
           LAMBDA a, b : PeriodLess(a[1], b[1])
                            \/ (a[1] = b[1] /\ TextLess(a[2], b[2])))

temporais_row(key, rows) ==
    LET g == SelectSeq(rows, LAMBDA r : r.Periodo = key[1] /\ r.Nome_Loja = key[2])
    IN  [Periodo |-> key[1],
         Nome_Loja |-> key[2],
         Total_Produtos |-> SumOf(g, LAMBDA r : r.Quantidade),
         Venda_RS |-> SumOf(g, LAMBDA r : r.Valor_Total),
         Periodo_Str |-> period_str(key[1])]

(* calcular_metricas_temporais(df) *)
calcular_metricas_temporais(df) ==
    IF df.rows = <<>>                                           \* lines 343-344
    THEN Table(<<"Periodo", "Nome_Loja", "Total_Produtos", "Venda_RS">>, <<>>)
    ELSE IF ~({"Periodo", "Nome_Loja", "Quantidade", "Valor_Total"} \subseteq df.cols)
         THEN Raised("KeyError")                                \* lines 347-350
    ELSE Table(<<"Periodo", "Nome_Loja", "Total_Produtos", "Venda_RS",
                 "Periodo_Str">>,                               \* lines 352-355
               MapSeq(temporais_keys(df.rows),
                      LAMBDA k : temporais_row(k, df.rows)))

-----------------------------------------------------------------------------
(* load_data and the dashboard script *)

EmptyFrame == [err |-> "", cols |-> <<>>, rows |-> <<>>]     \* pd.DataFrame()

NoResult ==
    [status |-> "none", vendedor |-> EmptyFrame, produto |-> EmptyFrame,
     temporais |-> EmptyFrame, consultores |-> <<>>]

NoData == [NoResult EXCEPT !.status = "nodata"]

RaisedResult == [NoResult EXCEPT !.status = "raised"]

(* line 383: sorted(df_master['Vendedor'].unique().tolist()) *)
lista_consultores(df) ==
    Sorted({df.rows[i].Vendedor : i \in 1..Len(df.rows)}, NameLess)

(* lines 378-394: the outcome, given what the three aggregations did *)
outcome(df, v, p, t) ==
    IF v.err # "" \/ p.err # "" \/ t.err # ""
    THEN [df |-> df, out |-> RaisedResult]
    ELSE [df |-> df,
          out |-> [status |-> "ok", vendedor |-> v, produto |-> p,
                   temporais |-> t, consultores |-> lista_consultores(df)]]

aggregate(df) ==
    outcome(df, calcular_metricas_vendedor(df), calcular_metricas_produto(df),
            calcular_metricas_temporais(df))

(* line 375: df_master[df_master['Periodo'].isin(periodos_selecionados)] *)
filter_periodos(df, ps) ==
    [df EXCEPT !.rows = SelectSeq(@, LAMBDA r : r.Periodo \in ps)]

(* lines 370-394 on the master frame *)
load_data_from(master, ps) ==
    IF ~master.ok \/ master.rows = <<>>                        \* lines 370-371
    THEN [df |-> master, out |-> NoData]
    ELSE IF ps = {} THEN aggregate(master)                     \* line 374
    ELSE IF "Periodo" \notin master.cols                       \* line 375
    THEN [df |-> master, out |-> RaisedResult]
    ELSE aggregate(filter_periodos(master, ps))

(* load_data(loja_configs, periodos_selecionados), lines 366-394, with     *)
(* debug mode off: the frame handed to the aggregations and the outcome.   *)
(* ps is the set of selected periods; None and [] are the empty set.       *)
load_data(srcs, ps) == load_data_from(load_and_combine_data(srcs), ps)

(* lines 321-330: the label of each period, index by index *)
with_labels(sorted) == [values |-> sorted, labels |-> MapSeq(sorted, strftime_b_y)]

(* extrair_periodos_disponiveis(df): the sorted distinct non-null periods  *)
(* and their labels                                                        *)
extrair_periodos_disponiveis(df) ==
    IF df.rows = <<>> \/ "Periodo" \notin df.cols              \* lines 311-312
    THEN [values |-> <<>>, labels |-> <<>>]
    ELSE with_labels(Sorted({df.rows[i].Periodo : i \in 1..Len(df.rows)} \ {NaT},
                            PeriodLess))

(* streamlit_app.py lines 105-114: the periods for the selected labels;    *)
(* list.index gives the first position of a label                          *)
selected_periods(per, sel) ==
    IF sel # {}
    THEN {per.values[IndexOf(per.labels, l, 1)] : l \in sel}
    ELSE Range(per.values)

(* lines 71-89: whether the script stops before the period filter *)
stops_early(srcs, completo, per) ==
    \/ srcs = <<>>                                             \* lines 71-73
    \/ ~completo.ok \/ completo.rows = <<>>                    \* lines 80-82
    \/ per.labels = <<>>                                       \* lines 87-89

Loaded(r, ps) ==
    /\ periodos' = ps
    /\ df_master' = r.df
    /\ result' = r.out
    /\ pc' = "done"

(* lines 98-123: the sidebar selection and the call of load_data *)
SelectAndLoad(per) ==
    \E sel \in SUBSET Range(per.labels) :
        Loaded(load_data(sources, selected_periods(per, sel)),
               selected_periods(per, sel))

DashboardRun(completo, per) ==
    IF stops_early(sources, completo, per)
    THEN /\ pc' = "stopped"
         /\ UNCHANGED <<periodos, df_master, result>>
    ELSE SelectAndLoad(per)

(* One run of the dashboard script, streamlit_app.py lines 55-123, with    *)
(* the user's choice of month labels in the sidebar                        *)
RunDashboard ==
    /\ pc = "start"
    /\ via' = "dashboard"
    /\ DashboardRun(load_and_combine_data(sources),
                    extrair_periodos_disponiveis(load_and_combine_data(sources)))
    /\ UNCHANGED <<sources, raw, cell, passes, qualVars, sessVars, extVars>>

Jan25 == [y |-> 2025, m |-> 1]
Mar25 == [y |-> 2025, m |-> 3]

DirectPeriods == {{}, {Jan25}, {Mar25}}

(* A direct call load_data(loja_configs, periodos_selecionados); the       *)
(* second argument defaults to None                                        *)
CallLoadData(ps) ==
    /\ pc = "start"
    /\ via' = "direct"
    /\ Loaded(load_data(sources, ps), ps)
    /\ UNCHANGED <<sources, raw, cell, passes, qualVars, sessVars, extVars>>

-----------------------------------------------------------------------------
(* The quality report of DataTransformer (data_transformer.py)             *)

CountRows(rows, Test(_)) == Cardinality({i \in 1..Len(rows) : Test(rows[i])})

EmptyReport ==
    [total_registros |-> 0, produtos_sem_preco |-> 0, valores_zerados |-> 0,
     quantidades_invalidas |-> 0, registros_invalidos |-> 0]

(* lines 130-137: one count per column that is present *)
produtos_sem_preco(df) ==
    IF "Status_Preco" \in df.cols
    THEN CountRows(df.rows, LAMBDA r : r.Status_Preco = "SEM_PRECO")
    ELSE 0

valores_zerados(df) ==
    IF "Valor_Total" \in df.cols
    THEN CountRows(df.rows, LAMBDA r : ~IsNaN(r.Valor_Total) /\ r.Valor_Total.m = 0)
    ELSE 0

quantidades_invalidas(df) ==
    IF "Quantidade" \in df.cols
    THEN CountRows(df.rows, LAMBDA r : ~IsNaN(r.Quantidade) /\ r.Quantidade.m <= 0)
    ELSE 0

(* lines 139-143: registros_invalidos is the largest of the three counts *)
report_of(total, sem_preco, zerados, invalidas) ==
    [total_registros |-> total,
     produtos_sem_preco |-> sem_preco,
     valores_zerados |-> zerados,
     quantidades_invalidas |-> invalidas,
     registros_invalidos |-> Max(sem_preco, Max(zerados, invalidas))]

(* DataTransformer.validate_data_quality(df): the dict it returns *)
validate_data_quality(df) ==
    IF df.rows = <<>> \/ df.cols = {} THEN EmptyReport         \* lines 112-119
    ELSE report_of(Len(df.rows), produtos_sem_preco(df), valores_zerados(df),
                   quantidades_invalidas(df))

(* a message on the screen: the Streamlit call (st.error, st.warning,      *)
(* st.info, st.success) and the finding it is about                        *)
Msg(level, about) == [level |-> level, about |-> about]

\* a plausible slip: the thresholds are inclusive
sem_preco_message_inclusive(sem_preco, total) ==
    IF sem_preco = 0 THEN <<>>
    ELSE IF sem_preco * 100 >= 50 * total THEN <<Msg("error", "sem_preco")>>
    ELSE IF sem_preco * 100 >= 20 * total THEN <<Msg("warning", "sem_preco")>>
    ELSE <<Msg("info", "sem_preco")>>

(* lines 158-174: pct = sem_preco / total * 100 against 50 and 20; the     *)
(* float comparison agrees with the exact one for every count up to 2000   *)
sem_preco_message(sem_preco, total) ==
    IF sem_preco = 0 THEN <<>>
    ELSE IF sem_preco * 100 > 50 * total THEN <<Msg("error", "sem_preco")>>
    ELSE IF sem_preco * 100 > 20 * total THEN <<Msg("warning", "sem_preco")>>
    ELSE <<Msg("info", "sem_preco")>>

(* lines 176-181 *)
qtd_invalida_message(qtd_invalida) ==
    IF qtd_invalida > 0 THEN <<Msg("warning", "quantidade")>> ELSE <<>>

(* lines 183-184 *)
success_message(sem_preco, qtd_invalida) ==
    IF sem_preco = 0 /\ qtd_invalida = 0 THEN <<Msg("success", "total")>> ELSE <<>>

(* DataTransformer.show_validation_warnings(validation): the messages it   *)
(* shows, in order                                                         *)
show_validation_warnings(v) ==
    IF v.total_registros = 0 THEN <<>>                         \* lines 154-155
    ELSE sem_preco_message(v.produtos_sem_preco, v.total_registros)
            \o qtd_invalida_message(v.quantidades_invalidas)
            \o success_message(v.produtos_sem_preco, v.quantidades_invalidas)

\* a plausible slip: the check removes the records it reports, as the
\* message of lines 176-181 announces
ValidateAndRemove ==
    /\ pc = "done"
    /\ df_master.ok
    /\ validation = <<>>
    /\ validation' = <<validate_data_quality(df_master)>>
    /\ df_master' = [df_master EXCEPT !.rows =
                        SelectSeq(@, LAMBDA r : r.Quantidade.m > 0)]
    /\ UNCHANGED <<sources, pc, via, periodos, result, raw, cell, passes,
                   warnings, sessVars, extVars>>

(* validation = DataTransformer.validate_data_quality(df) over the record  *)
(* set that was loaded                                                     *)
ValidateQuality ==
    /\ pc = "done"
    /\ df_master.ok
    /\ validation = <<>>
    /\ validation' = <<validate_data_quality(df_master)>>
    /\ UNCHANGED <<sources, pc, via, periodos, df_master, result, raw, cell,
                   passes, warnings, sessVars, extVars>>

(* DataTransformer.show_validation_warnings(validation) *)
ShowWarnings ==
    /\ validation # <<>>
    /\ ~warnings.shown
    /\ warnings' = [shown |-> TRUE,
                    msgs |-> show_validation_warnings(validation[1])]
    /\ UNCHANGED <<sources, pc, via, periodos, df_master, result, raw, cell,
                   passes, validation, sessVars, extVars>>

(* Record sets as DataTransformer.normalize_sales_data returns them for    *)
(* the rows of the sales query: n rows, the first k without a price (their *)
(* total is 0), the last q returned goods with a quantity of -1            *)
MaxReportRows == 10

DbRow(sem_preco, qty) ==
    [Status_Preco |-> IF sem_preco THEN "SEM_PRECO" ELSE "OK",
     Quantidade |-> IntCell(qty),
     Valor_Total |-> FloatCell(IF sem_preco THEN Zero ELSE IntNum(10 * qty))]

DbFrame(n, k, q) ==
    [ok |-> TRUE,
     cols |-> {"Status_Preco", "Quantidade", "Valor_Total"},
     rows |-> [i \in 1..n |-> DbRow(i <= k, IF i > n - q THEN -1 ELSE 1)]]

InitQuality ==
    /\ \E n \in 0..MaxReportRows : \E k \in 0..n : \E q \in 0..(IF n > 1 THEN 1 ELSE 0) :
          df_master = DbFrame(n, k, q)
    /\ sources = <<>>
    /\ pc = "done"
    /\ via = "db"
    /\ periodos = {}
    /\ result = [status |-> "none"]
    /\ raw = NaNCell
    /\ cell = NaNCell
    /\ passes = <<>>
    /\ IdleQuality
    /\ IdleSession
    /\ IdleExt

NextQuality == ValidateQuality \/ ShowWarnings

SpecQuality == InitQuality /\ [][NextQuality]_vars

-----------------------------------------------------------------------------
(* The requests explored: the stores of one region and the sheets behind   *)
(* them                                                                    *)

T_2025_01_15 == <<"2", "0", "2", "5", "/", "0", "1", "/", "1", "5">>
T_2025_02_10 == <<"2", "0", "2", "5", "/", "0", "2", "/", "1", "0">>
T_2025_13_01 == <<"2", "0", "2", "5", "/", "1", "3", "/", "0", "1">>

T_10 == <<"1", "0">>
T_5 == <<"5">>
T_0 == <<"0">>
T_m5 == <<"-", "5">>
T_100_00 == <<"1", "0", "0", ",", "0", "0">>
T_60_00 == <<"6", "0", ",", "0", "0">>
T_m60_00 == <<"-", "6", "0", ",", "0", "0">>
T_x == <<"x">>

LojaA == <<"L", "A">>
LojaB == <<"L", "B">>

Row(v, p, d, n, q, vt, mes, cli) ==
    [Vendedor |-> v, Produto |-> p, Descricao |-> d, N_Doc |-> n,
     Quantidade |-> StrCell(q), Valor_Total |-> StrCell(vt),
     Valor_Unidade |-> StrCell(T_10),
     Mes |-> mes, Cliente |-> cli]

SheetRows ==
    { Row("Ana", "P1", "Oleo", "D1", T_10, T_100_00, T_2025_01_15, LojaA),
      Row("Bruno", "P1", "Oleo", "D2", T_5, T_60_00, T_2025_01_15, LojaB),
      Row("Ana", "P2", "Filtro", "D1", T_5, T_60_00, T_2025_02_10, LojaA),
      Row("Ana", "P1", NULL, "D2", T_5, T_60_00, T_2025_01_15, LojaA),
      Row("Bruno", "P1", "Oleo", NULL, T_10, T_100_00, T_2025_01_15, LojaA),
      Row("Bruno", "P1", "Oleo", NULL, T_x, T_0, T_2025_02_10, LojaA),
      Row("Bruno", "P2", "Filtro", NULL, T_m5, T_m60_00, T_2025_01_15, LojaA),
      Row("Ana", "P1", "Oleo", "D1", T_m5, T_m60_00, T_2025_01_15, LojaA),
      Row("Ana", "P1", "Oleo", "D1", T_0, T_0, T_2025_01_15, LojaA),
      Row(NULL, "P1", "Oleo", "D1", T_10, T_100_00, T_2025_01_15, LojaA),
      Row("Ana", NULL, "Oleo", "D1", T_10, T_100_00, T_2025_01_15, LojaA),
      Row("Ana", "P1", "Oleo", "D2", T_10, T_100_00, T_2025_13_01, LojaA) }

AllCols ==
    {"Mes", "N_Doc", "Cliente", "Vendedor", "Produto", "Valor_Unidade",
     "Descricao", "Quantidade", "Valor_Total"}

OptionalCols == {"N_Doc", "Descricao", "Mes", "Cliente"}

Seqs(S, n) == UNION {[1..k -> S] : k \in 0..n}

(* the stores of the region, in the order of the sidebar *)
Stores ==
    <<[name |-> <<"A">>, filter |-> <<"l", "a">>],
      [name |-> <<"B">>, filter |-> <<"l", "b">>]>>

Source(i, cols, rows) ==
    [name |-> Stores[i].name, filter |-> Stores[i].filter, exists |-> TRUE,
     cols |-> cols, rows |-> rows]

(* one or two selected stores with complete sheets *)
InitRows ==
    \/ \E t \in Seqs(SheetRows, MaxRows) : sources = <<Source(1, AllCols, t)>>
    \/ \E t1 \in Seqs(SheetRows, MaxRows) :
         \E t2 \in Seqs(SheetRows, MaxRows - Len(t1)) :
            sources = <<Source(1, AllCols, t1), Source(2, AllCols, t2)>>

PlainRows ==
    { Row("Ana", "P1", "Oleo", "D1", T_10, T_100_00, T_2025_01_15, LojaA),
      Row("Bruno", "P1", "Oleo", "D2", T_5, T_60_00, T_2025_02_10, LojaA) }

(* one selected store whose sheet lacks some of the optional columns *)
InitCols ==
    \E t \in Seqs(PlainRows, MaxRows) :
      \E lacking \in SUBSET OptionalCols :
         sources = <<Source(1, AllCols \ lacking, t)>>

StoreRows ==
    << { Row("Ana", "P1", "Oleo", "D1", T_10, T_100_00, T_2025_01_15, LojaA),
         Row("Bruno", "P1", "Oleo", "D2", T_5, T_60_00, T_2025_02_10, LojaA) },
       { Row("Bruno", "P1", "Oleo", "D2", T_5, T_60_00, T_2025_01_15, LojaB),
         Row("Ana", "P2", "Filtro", "D1", T_5, T_60_00, T_2025_02_10, LojaA) } >>

(* what can be wrong with the descriptor or the sheet of one store: the    *)
(* file is absent, a required column is absent, no filter is configured    *)
Faults == {"none", "absent", "no_Vendedor", "no_Valor_Total", "no_filter"}

FaultySource(i, fault, rows) ==
    [name |-> Stores[i].name,
     filter |-> IF fault = "no_filter" THEN <<>> ELSE Stores[i].filter,
     exists |-> fault # "absent",
     cols |-> CASE fault = "no_Vendedor" -> AllCols \ {"Vendedor"}
                [] fault = "no_Valor_Total" -> AllCols \ {"Valor_Total"}
                [] OTHER -> AllCols,
     rows |-> rows]

(* two selected stores, each with a sheet of at most one row and possibly  *)
(* one of the faults                                                       *)
InitFaulty ==
    \E t1 \in Seqs(StoreRows[1], 1) : \E t2 \in Seqs(StoreRows[2], 1) :
      \E f1 \in Faults : \E f2 \in Faults :
         sources = <<FaultySource(1, f1, t1), FaultySource(2, f2, t2)>>

Init ==
    /\ InitRows \/ InitCols \/ InitFaulty
    /\ pc = "start"
    /\ via = "none"
    /\ periodos = {}
    /\ df_master = None
    /\ result = NoResult
    /\ raw = NaNCell
    /\ cell = NaNCell
    /\ passes = <<>>
    /\ IdleQuality
    /\ IdleSession
    /\ IdleExt

Next ==
    \/ RunDashboard
    \/ \E ps \in DirectPeriods : CallLoadData(ps)
    \/ ValidateQuality
    \/ ShowWarnings

Spec == Init /\ [][Next]_vars

-----------------------------------------------------------------------------
(* Login, session and database (auth.py, db_connector.py, pages/)          *)

(* str.strip() *)
RECURSIVE lstrip(_)
lstrip(t) == IF t # <<>> /\ Head(t) = " " THEN lstrip(Tail(t)) ELSE t

RECURSIVE rstrip(_)
rstrip(t) ==
    IF t # <<>> /\ t[Len(t)] = " " THEN rstrip(SubSeq(t, 1, Len(t) - 1)) ELSE t

strip(t) == rstrip(lstrip(t))

(* str.lower() *)
lower(t) == [i \in 1..Len(t) |-> LowerChar(t[i])]

(* what a call gave back: a value, or an exception that left the call *)
Returned(v) == [raised |-> FALSE, exc |-> "", value |-> v]
Raise(e) == [raised |-> TRUE, exc |-> e, value |-> <<>>]

(* DatabaseConnector.execute_query(query, params) against the database d:  *)
(* rows is what the query selects when it runs.  getconn() without a free  *)
(* connection raises PoolError (a psycopg2.Error, lines 104-110); a failed *)
(* query raises out of pd.read_sql_query (lines 112-114); both handlers    *)
(* show the error and re-raise                                             *)
execute_query(d, failing, rows) ==
    IF d.pool = "exhausted" THEN Raise("PoolError")
    ELSE IF failing THEN Raise("DatabaseError")
    ELSE Returned(rows)

(* DatabaseConnector.test_connection(): every exception becomes False *)
test_connection(d) ==
    IF d.pool = "exhausted" THEN Returned(FALSE)               \* lines 125-127
    ELSE IF d.query = "fails" THEN Returned(FALSE)             \* lines 125-127
    ELSE Returned(TRUE)                                        \* line 123

(* _AUTH_QUERY: the active user with this e-mail, at most one *)
auth_rows(d, email) ==
    SetToSeq({u \in d.users : u.email = email /\ u.active})

(* _PASSWORD_QUERY: the password hash of the user with this id *)
password_rows(d, id) ==
    SetToSeq({u.password_hash : u \in {w \in d.users : w.id = id}})

(* bcrypt hashes: the hash of a password, or a text that is no hash *)
Hashed(pw) == <<"bcrypt", pw>>

(* _verify_password: checkpw, with every exception turned into False *)
verify_password(plain, hashed) ==
    IF Head(hashed) # "bcrypt" THEN FALSE                      \* lines 62-63
    ELSE hashed = Hashed(plain)

user_dict(u) == [id |-> u.id, name |-> u.name, email |-> u.email, role |-> u.role]

(* a user or None *)
Found(u) == [found |-> TRUE, user |-> user_dict(u)]
NotFound == [found |-> FALSE, user |-> NoUser]

(* authenticate_user after the first query came back with a row *)
check_password(user, password, pwd) ==
    IF pwd.raised THEN Returned(NotFound)                      \* lines 52-54
    ELSE IF pwd.value = <<>> THEN Returned(NotFound)           \* lines 37-38
    ELSE IF ~verify_password(password, pwd.value[1])
    THEN Returned(NotFound)                                    \* lines 42-43
    ELSE Returned(Found(user))                                 \* lines 45-50

\* a plausible slip: the queries are made outside the try block
lookup_user_uncaught(d, password, found) ==
    IF found.raised THEN found
    ELSE IF found.value = <<>> THEN Returned(NotFound)
    ELSE check_password(found.value[1], password,
            execute_query(d, d.query # "ok",
                          password_rows(d, found.value[1].id)))

(* authenticate_user, lines 28-54, given what the first query came back    *)
(* with                                                                    *)
lookup_user(d, password, found) ==
    IF found.raised THEN Returned(NotFound)                    \* lines 52-54
    ELSE IF found.value = <<>> THEN Returned(NotFound)         \* lines 31-32
    ELSE check_password(found.value[1], password,
            execute_query(d, d.query # "ok",
                          password_rows(d, found.value[1].id)))

(* authenticate_user(email, password); the query "fails_first" state of    *)
(* the database fails only the first query, "fails" every query            *)
authenticate_user(d, email, password) ==
    lookup_user(d, password,
        execute_query(d, d.query \in {"fails", "fails_first"},
                      auth_rows(d, lower(strip(email)))))

(* is_logged_in(): st.session_state.get("authenticated", False) *)
is_logged_in(ss) == "authenticated" \in ss.keys /\ ss.authenticated

(* get_current_user(): st.session_state.get("user", None); None is NoUser *)
get_current_user(ss) == IF "user" \in ss.keys THEN ss.user ELSE NoUser

(* is_admin() *)
is_admin(ss) ==
    get_current_user(ss) # NoUser /\ get_current_user(ss).role = "ROLE_ADMIN"

(* what get_user_id_filter returns: None, or a user id *)
NoFilter == [restricted |-> FALSE, id |-> 0]
OnlyUser(id) == [restricted |-> TRUE, id |-> id]

(* get_user_id_filter() *)
get_user_id_filter(ss) ==
    IF is_admin(ss) THEN NoFilter                              \* lines 93-94
    ELSE IF get_current_user(ss) # NoUser
    THEN OnlyUser(get_current_user(ss).id)                     \* line 96
    ELSE NoFilter                                              \* line 96

(* login(user) *)
login(ss, user) ==
    [authenticated |-> TRUE, user |-> user,
     keys |-> ss.keys \cup {"authenticated", "user"}]

\* a plausible slip: only the login flag is deleted
logout_flag_only(ss) ==
    [ss EXCEPT !.authenticated = FALSE, !.keys = @ \ {"authenticated"}]

(* logout(), lines 74-75: every key is deleted *)
logout(ss) == EmptySession

(* pages/login.py after authenticate_user returned *)
LoginOutcome(r) ==
    /\ reply' = [op |-> "authenticate_user", raised |-> r.raised,
                 found |-> ~r.raised /\ r.value.found]
    /\ IF r.raised THEN /\ page' = "login_crashed"
                        /\ session' = session
       ELSE IF r.value.found                                   \* lines 26-28
       THEN /\ session' = login(session, r.value.user)
            /\ page' = "login_ok"
       ELSE /\ session' = session                              \* lines 29-30
            /\ page' = "login_invalid"
    /\ IF ~r.raised /\ r.value.found
       THEN last_auth' = [call |-> "login", user |-> r.value.user]
       ELSE last_auth' = last_auth

(* pages/login.py: the form is submitted with an e-mail and a password *)
LoginSubmit(email, password) ==
    /\ ~is_logged_in(session)                                  \* lines 4-5
    /\ IF email = <<>> \/ password = ""                        \* lines 20-21
       THEN /\ page' = "login_incomplete"
            /\ UNCHANGED <<session, reply, last_auth>>
       ELSE LoginOutcome(authenticate_user(db, email, password))
    /\ UNCHANGED <<sources, pc, via, periodos, df_master, result, raw, cell,
                   passes, qualVars, extVars, db>>

(* logout(): every key of the session is deleted and the script is run     *)
(* again from the top                                                      *)
Logout ==
    /\ session.keys # {}
    /\ session' = logout(session)
    /\ last_auth' = [call |-> "logout", user |-> NoUser]
    /\ pc' = "start"
    /\ via' = "none"
    /\ periodos' = {}
    /\ df_master' = None
    /\ result' = NoResult
    /\ page' = "none"
    /\ UNCHANGED <<sources, raw, cell, passes, qualVars, extVars, db, reply>>

(* pages/incentivos.py, lines 62-169: the page stops when the connection   *)
(* test fails; otherwise it loads the incentives and shows them, or stops  *)
(* at one of the "no data" checks                                          *)
RunIncentivos ==
    /\ page # "incentivos"
    /\ reply' = [op |-> "test_connection", raised |-> test_connection(db).raised,
                 found |-> test_connection(db).value]
    /\ \/ /\ page' = "incentivos_stopped"                     \* lines 62-169
          /\ session' = session
       \/ /\ test_connection(db).value
          /\ page' = "incentivos"
          /\ session' = [session EXCEPT                       \* line 280
                            !.keys = @ \cup {"chart_vendedor_0"}]
    /\ UNCHANGED <<sources, pc, via, periodos, df_master, result, raw, cell,
                   passes, qualVars, extVars, db, last_auth>>

Email_ana == <<"a", "@", "b">>
Email_ANA == <<" ", "A", "@", "b", " ">>
Email_joao == <<"j", "o", "@", "b">>
Email_bia == <<"b", "@", "b">>

Emails == {<<>>, Email_ana, Email_ANA, Email_joao, Email_bia}
Passwords == {"", "pw", "bad"}

UserAna(active, hash) ==
    [id |-> 1, name |-> "Ana", email |-> Email_ana, role |-> "ROLE_USER",
     active |-> active, password_hash |-> hash]

UserBia ==
    [id |-> 2, name |-> "Bia", email |-> Email_bia, role |-> "ROLE_ADMIN",
     active |-> TRUE, password_hash |-> Hashed("pw")]

UsersTables ==
    { {}, {UserAna(TRUE, Hashed("pw"))}, {UserAna(FALSE, Hashed("pw"))},
      {UserAna(TRUE, <<"plain", "pw">>)},
      {UserAna(TRUE, Hashed("pw")), UserBia} }

(* one store with a sheet of at most one row, a fresh session, and a       *)
(* database that is up, refuses connections or fails queries               *)
InitSession ==
    /\ \E t \in Seqs(PlainRows, 1) : sources = <<Source(1, AllCols, t)>>
    /\ pc = "start"
    /\ via = "none"
    /\ periodos = {}
    /\ df_master = None
    /\ result = NoResult
    /\ raw = NaNCell
    /\ cell = NaNCell
    /\ passes = <<>>
    /\ IdleQuality
    /\ session = EmptySession
    /\ db \in [pool : {"ok", "exhausted"},
               query : {"ok", "fails", "fails_first", "fails_second"},
               users : UsersTables]
    /\ reply = [op |-> "none"]
    /\ page = "none"
    /\ last_auth = [call |-> "none", user |-> NoUser]
    /\ IdleExt

NextSession ==
    \/ \E email \in Emails : \E password \in Passwords :
          LoginSubmit(email, password)
    \/ Logout
    \/ RunDashboard
    \/ RunIncentivos

SpecSession == InitSession /\ [][NextSession]_vars

-----------------------------------------------------------------------------
(* Claims about the pipeline (checked under Spec) *)

Done == pc = "done"

Aggregated == pc = "done" /\ result.status = "ok"

Rows == df_master.rows

RECURSIVE QtyOver(_, _)
QtyOver(rows, I) ==
    IF I = {} THEN Zero
    ELSE LET i == CHOOSE i \in I : TRUE
         IN  NumAdd(NumOf(rows[i].Quantidade), QtyOver(rows, I \ {i}))

RECURSIVE ValOver(_, _)
ValOver(rows, I) ==
    IF I = {} THEN Zero
    ELSE LET i == CHOOSE i \in I : TRUE
         IN  NumAdd(NumOf(rows[i].Valor_Total), ValOver(rows, I \ {i}))

RowsOf(v) == {i \in 1..Len(Rows) : Rows[i].Vendedor = v}

IsZeroQ(q) == q.k = "fin" /\ q.n.m = 0

NonNegFinite(q) == q.k = "fin" /\ ((q.n.m >= 0 /\ q.d.m > 0) \/ (q.n.m <= 0 /\ q.d.m < 0))

(* C1: load_data over sources that pass the required-column check returns  *)
(* the aggregations or the empty "no data" result and never raises,        *)
(* whichever optional columns (N_Doc, Descricao, Mes, Cliente) are absent. *)
C1_LoadDataNeverRaises ==
    Done => result.status \in {"ok", "nodata"}

(* C2: no record with quantity <= 0, or with a missing salesperson or      *)
(* product, is in the record set handed to the aggregations.               *)
C2_InvalidRecordsExcluded ==
    Aggregated =>
        \A i \in 1..Len(Rows) :
            /\ Rows[i].Quantidade.m > 0
            /\ Rows[i].Vendedor # NULL
            /\ Rows[i].Produto # NULL

(* C3: every salesperson row has Ticket_Medio >= 0 and Performance >= 0,   *)
(* both finite, also when Total_OS is 0.                                   *)
C3_RatiosNonNegativeFinite ==
    Aggregated =>
        \A i \in 1..Len(result.vendedor.rows) :
            /\ NonNegFinite(result.vendedor.rows[i].Ticket_Medio)
            /\ NonNegFinite(result.vendedor.rows[i].Performance)

(* C4: a salesperson row whose Total_OS is zero has Ticket_Medio = 0 and   *)
(* Performance = 0, and no returned row holds NaN or an infinity.          *)
C4_ZeroDenominatorGivesZero ==
    Aggregated =>
        \A i \in 1..Len(result.vendedor.rows) :
            LET r == result.vendedor.rows[i]
            IN  /\ r.Ticket_Medio.k = "fin"
                /\ r.Performance.k = "fin"
                /\ r.Total_OS = 0 =>
                        IsZeroQ(r.Ticket_Medio) /\ IsZeroQ(r.Performance)

\* a salesperson without any document id but with sales: the quotient was inf
C4_Witness ==
    /\ Aggregated
    /\ \E i \in 1..Len(result.vendedor.rows) :
          LET r == result.vendedor.rows[i]
          IN  /\ r.Total_OS = 0
              /\ r.Venda_RS.m > 0
              /\ IsZeroQ(r.Ticket_Medio)
              /\ IsZeroQ(r.Performance)

ProdutoRows == result.produto.rows

PenetracaoNumerators ==
    [i \in 1..Len(ProdutoRows) |-> ProdutoRows[i].Penetracao_Produto.n]

(* C5: the Penetracao_Produto of the product rows sum to 100 when the      *)
(* grand-total quantity is > 0, and each is 0 when the grand total is 0.   *)
C5_PenetrationSumsTo100 ==
    Aggregated =>
        LET total == QtyOver(Rows, 1..Len(Rows))
        IN  /\ total.m > 0 =>
                /\ \A i \in 1..Len(ProdutoRows) :
                        ProdutoRows[i].Penetracao_Produto.d = total
                /\ NumSum(PenetracaoNumerators) = NumTimes(total, 100)
            /\ total.m = 0 =>
                \A i \in 1..Len(ProdutoRows) :
                    IsZeroQ(ProdutoRows[i].Penetracao_Produto)

VendedorRows == result.vendedor.rows

(* C6: calcular_metricas_vendedor returns exactly one row per distinct     *)
(* salesperson of the record set, with Total_Produtos the sum of that      *)
(* salesperson's quantities, Venda_RS the sum of their total values and    *)
(* Total_OS the number of distinct document ids among their records.       *)
C6_OneRowPerSalesperson ==
    Aggregated =>
        /\ {VendedorRows[i].Consultor : i \in 1..Len(VendedorRows)}
                = {Rows[i].Vendedor : i \in 1..Len(Rows)}
        /\ \A i, j \in 1..Len(VendedorRows) :
                VendedorRows[i].Consultor = VendedorRows[j].Consultor => i = j
        /\ \A i \in 1..Len(VendedorRows) :
                LET r == VendedorRows[i]
                IN  /\ r.Total_Produtos = QtyOver(Rows, RowsOf(r.Consultor))
                    /\ r.Venda_RS = ValOver(Rows, RowsOf(r.Consultor))
                    /\ r.Total_OS =
                        Cardinality({d \in {"D1", "D2"} :
                            \E k \in RowsOf(r.Consultor) : Rows[k].N_Doc = d})

\* the example of the specification: store A sold 10 for 100.00 through Ana,
\* store B sold 5 for 60.00 through Bruno
C6_Witness ==
    /\ Aggregated
    /\ Len(sources) = 2
    /\ Len(sources[1].rows) = 1
    /\ Len(sources[2].rows) = 1
    /\ Len(VendedorRows) = 2
    /\ VendedorRows[1].Consultor = "Ana"
    /\ VendedorRows[1].Total_Produtos = IntNum(10)
    /\ VendedorRows[1].Venda_RS = IntNum(100)
    /\ VendedorRows[1].Total_OS = 1
    /\ VendedorRows[2].Consultor = "Bruno"
    /\ VendedorRows[2].Total_Produtos = IntNum(5)
    /\ VendedorRows[2].Venda_RS = IntNum(60)
    /\ VendedorRows[2].Total_OS = 1

(* C7: each of the three aggregations returns, on an empty record set, a   *)
(* table with zero rows and the same columns as the table it returns on a  *)
(* non-empty record set (here: on the unfiltered master set).              *)
C7_EmptyResultSameColumns ==
    (Aggregated /\ Rows = <<>>) =>
        /\ result.vendedor.rows = <<>>
        /\ result.produto.rows = <<>>
        /\ result.temporais.rows = <<>>
        /\ result.vendedor.cols
                = calcular_metricas_vendedor(load_and_combine_data(sources)).cols
        /\ result.produto.cols
                = calcular_metricas_produto(load_and_combine_data(sources)).cols
        /\ result.temporais.cols
                = calcular_metricas_temporais(load_and_combine_data(sources)).cols

Master == load_and_combine_data(sources).rows

(* C8: a row whose date fails to parse has a null period and is still part *)
(* of the record set behind the by-salesperson and by-product tables that  *)
(* load_data returns to the dashboard, whatever months are selected.       *)
C8_UnparsedPeriodRowsKept ==
    (Aggregated /\ via = "dashboard") =>
        \A i \in 1..Len(Master) :
            to_datetime(Master[i].Mes) = NoDate =>
                /\ Master[i].Periodo = NaT
                /\ \E j \in 1..Len(Rows) : Rows[j] = Master[i]

-----------------------------------------------------------------------------
(* What a text in Brazilian number format denotes, read group by group:    *)
(* [-] ddd(.ddd)*[,d+]  or  [-] d+[,d+].  Independent of the cleaning      *)
(* above: the thousands groups are weighed, not deleted.                   *)

BRParts(s) ==
    LET u == IF s # <<>> /\ Head(s) = "-" THEN Tail(s) ELSE s
        c == IndexOf(u, ",", 1)
    IN  [neg |-> s # <<>> /\ Head(s) = "-",
         groups |-> Split(IF c = 0 THEN u ELSE SubSeq(u, 1, c - 1), "."),
         comma |-> c # 0,
         frac |-> IF c = 0 THEN <<>> ELSE SubSeq(u, c + 1, Len(u))]

WellFormedBR(s) ==
    LET p == BRParts(s)
        g == p.groups
    IN  /\ \A i \in 1..Len(g) : AllDigits(g[i])
        /\ Len(g[1]) >= 1
        /\ Len(g) > 1 => /\ Len(g[1]) <= 3
                          /\ \A i \in 2..Len(g) : Len(g[i]) = 3
        /\ AllDigits(p.frac)
        /\ p.comma => Len(p.frac) >= 1

RECURSIVE GroupsValue(_)
GroupsValue(g) ==
    IF g = <<>> THEN 0
    ELSE 1000 * GroupsValue(SubSeq(g, 1, Len(g) - 1)) + DigitsVal(g[Len(g)])

BRValue(s) ==
    LET p == BRParts(s)
        whole == IF Len(p.groups) = 1 THEN DigitsVal(p.groups[1])
                 ELSE GroupsValue(p.groups)
        mag == whole * Pow10(Len(p.frac)) + DigitsVal(p.frac)
    IN  Norm(IF p.neg THEN -mag ELSE mag, Len(p.frac))

Txt_1234_56 == <<"1", ".", "2", "3", "4", ",", "5", "6">>

(* C9: re-normalising an already canonical value is a no-op: once the      *)
(* normaliser has run, running it again leaves the quantity, unit price    *)
(* and total value of every record as they were (also values with a        *)
(* fractional part).                                                       *)
C9_RenormalizeIsNoOp ==
    [][Len(passes) >= 1 => NumOf(cell') = NumOf(cell)]_vars

(* C10: read_and_clean_xlsx turns every numeric value into the number its  *)
(* text denotes in Brazilian format ('.' thousands separator removed, ','  *)
(* read as the decimal point); a value that cannot be parsed becomes 0,    *)
(* and the cleaning always yields a number (it never fails).               *)
C10_BrazilianParse ==
    passes = <<"xlsx">> =>
        /\ cell.t \in {"int", "float"}
        /\ WellFormedBR(astype_str(raw)) =>
                NumOf(cell) = BRValue(astype_str(raw))
        /\ ~IsNumericLiteral(clean_numeric_str(raw)) => NumOf(cell) = Zero

C10_Witness ==
    /\ passes = <<"xlsx">>
    /\ raw = StrCell(Txt_1234_56)
    /\ NumOf(cell) = [m |-> 123456, e |-> 2]

-----------------------------------------------------------------------------
(* Claims about combining the stores (checked under Spec) *)

Yielding == {i \in 1..Len(sources) : read_and_clean_xlsx(sources[i]).ok}

\* load_data was called without a period selection: df_master is the frame
\* load_and_combine_data returned
Combined == pc = "done" /\ via = "direct" /\ periodos = {}

\* the text that marks the rows of store i in this request
TagOf(i) ==
    IF sources[i].filter # <<>> THEN sources[i].filter ELSE sources[i].name

RowsFrom(i) == {j \in 1..Len(Rows) : Rows[j].Nome_Loja = TagOf(i)}

SourceRows(i) == read_and_clean_xlsx(sources[i]).rows

RECURSIVE Offset(_)
Offset(i) == IF i = 1 THEN 0 ELSE Offset(i - 1) + Len(SourceRows(i - 1))

(* C11: load_and_combine_data returns a master set whenever at least one   *)
(* source yields data, skips every source that yields none (file absent,   *)
(* required column missing, filter matched nothing), and returns None only *)
(* when no source yields.                                                  *)
C11_FailsOnlyWhenNoSourceYields ==
    Combined =>
        /\ df_master.ok <=> Yielding # {}
        /\ \A i \in 1..Len(sources) : i \notin Yielding => RowsFrom(i) = {}

\* one store's file is absent, the other store's rows make up the master set
C11_Witness ==
    /\ Combined
    /\ Len(sources) = 2
    /\ ~sources[1].exists
    /\ Yielding = {2}
    /\ df_master.ok
    /\ Len(Rows) = 1

(* C12: the master set holds exactly the rows of every yielding source, in *)
(* descriptor order and within a source in row order; its row count is the *)
(* sum of the per-source counts, identical rows included.                  *)
C12_ConcatKeepsRowsInOrder ==
    (Combined /\ df_master.ok) =>
        /\ Len(Rows) = Offset(Len(sources) + 1)
        /\ \A i \in 1..Len(sources) : \A k \in 1..Len(SourceRows(i)) :
              Rows[Offset(i) + k]
                  = [SourceRows(i)[k] EXCEPT !.Nome_Loja = TagOf(i)]

\* two stores with one row each: store A's row comes first
C12_Witness ==
    /\ Combined
    /\ Len(sources) = 2
    /\ Len(SourceRows(1)) = 1
    /\ Len(SourceRows(2)) = 1
    /\ Len(Rows) = 2
    /\ Rows[1].Nome_Loja = TagOf(1)
    /\ Rows[2].Nome_Loja = TagOf(2)
    /\ Rows[1].Vendedor # Rows[2].Vendedor

(* C13: every row of the master set carries in Nome_Loja the name of the   *)
(* store (descriptor) it was loaded from.                                  *)
C13_TaggedWithStoreName ==
    (Combined /\ df_master.ok) =>
        \A i \in 1..Len(sources) : \A k \in 1..Len(SourceRows(i)) :
            Rows[Offset(i) + k].Nome_Loja = sources[i].name

(* C14: when a required column (Vendedor, Produto, Quantidade,             *)
(* Valor_Total) is absent, read_and_clean_xlsx yields no table for that    *)
(* source and no row of it is in the record set that is aggregated.        *)
C14_MissingRequiredColumnFailsSource ==
    \A i \in 1..Len(sources) :
        ~({"Vendedor", "Produto", "Quantidade", "Valor_Total"}
                \subseteq sources[i].cols) =>
            /\ ~read_and_clean_xlsx(sources[i]).ok
            /\ Aggregated => RowsFrom(i) = {}
            /\ (Done /\ Len(sources) = 1) => result.status = "nodata"

\* store A's sheet has no Valor_Total column; store B's row is aggregated
C14_Witness ==
    /\ Aggregated
    /\ Len(sources) = 2
    /\ "Valor_Total" \notin sources[1].cols
    /\ sources[1].rows # <<>>
    /\ Len(Rows) = 1
    /\ Rows[1].Nome_Loja = TagOf(2)

\* the file is there and has the columns, but no row matches the filter
NoMatch(src) ==
    /\ src.exists
    /\ required_cols \subseteq src.cols
    /\ src.filter # <<>>
    /\ "Cliente" \in src.cols
    /\ \A k \in 1..Len(src.rows) : ~str_contains(src.rows[k].Cliente, src.filter)

(* C15: what read_and_clean_xlsx returns when the store filter matches no  *)
(* row differs from what it returns when the file is missing.              *)
C15_NoMatchDistinguishable ==
    Done =>
        \A i \in 1..Len(sources) :
            NoMatch(sources[i]) =>
                read_and_clean_xlsx(sources[i])
                    # read_and_clean_xlsx([sources[i] EXCEPT !.exists = FALSE])

-----------------------------------------------------------------------------
(* Claims about the quality report *)

Report == validation[1]

\* rows whose recorded total differs from unit price x quantity by more than
\* the tolerance of 0.10 (data_loader.py lines 133-139)
Inconsistent ==
    {i \in 1..Len(Rows) :
        /\ "Diferenca" \in df_master.cols
        /\ Rows[i].Diferenca.m * 10 > Pow10(Rows[i].Diferenca.e)}

(* C16: the quality report over a normalized master set includes the count *)
(* of rows whose total differs from unit price x quantity by more than the *)
(* tolerance; such rows are kept in the aggregated record set.             *)
C16_ReportCountsInconsistentRows ==
    (Aggregated /\ validation # <<>> /\ Inconsistent # {}) =>
        \E k \in DOMAIN Report \ {"total_registros"} :
            Report[k] = Cardinality(Inconsistent)

ShownAbout(level, about) ==
    \E i \in 1..Len(warnings.msgs) : warnings.msgs[i] = Msg(level, about)

C18_ReportLeavesDataUnchanged ==
    [][(validation' # validation \/ warnings' # warnings) =>
            df_master' = df_master]_vars

\* a record set with a non-positive quantity was reported on, the warning
\* was shown, and the record is still there
C18_Witness ==
    /\ warnings.shown
    /\ Report.quantidades_invalidas > 0
    /\ ShownAbout("warning", "quantidade")
    /\ \E i \in 1..Len(Rows) : Rows[i].Quantidade.m <= 0

-----------------------------------------------------------------------------
(* Claims about the login and the database (checked under SpecSession) *)

(* C19: while is_logged_in() is false, neither the sales page nor the      *)
(* incentives page has loaded or shown sales or incentive data.            *)
C19_DataOnlyBehindLogin ==
    \/ is_logged_in(session)
    \/ /\ ~(pc = "done" /\ via = "dashboard")
       /\ page # "incentivos"

DbFails == db.pool = "exhausted" \/ db.query # "ok"

(* C20: a database failure during a query (no connection available, or the *)
(* query fails) leaves execute_query as an exception its caller can        *)
(* handle: authenticate_user returns None and test_connection returns      *)
(* False, and neither lets the exception out.                              *)
C20_DbFailureIsRecoverable ==
    /\ (db.pool = "exhausted" \/ db.query = "fails") =>
            /\ execute_query(db, db.query = "fails", <<>>).raised
            /\ ~test_connection(db).raised
    /\ reply.op = "authenticate_user" =>
            /\ ~reply.raised
            /\ DbFails => ~reply.found
    /\ reply.op = "test_connection" =>
            /\ ~reply.raised
            /\ (db.pool = "exhausted" \/ db.query = "fails") => ~reply.found
    /\ page # "login_crashed"

\* Ana is registered and the pool has no connection left: the login page
\* got None from authenticate_user and reports invalid credentials
C20_Witness ==
    /\ reply.op = "authenticate_user"
    /\ db.pool = "exhausted"
    /\ db.users = {UserAna(TRUE, Hashed("pw"))}
    /\ ~reply.raised
    /\ ~reply.found
    /\ page = "login_invalid"
    /\ ~is_logged_in(session)

(* C25: get_user_id_filter returns None (no restriction to one user) only  *)
(* when the session's user is an admin; in every other session state it    *)
(* returns the id of the logged-in user.                                   *)
C25_OnlyAdminUnrestricted ==
    /\ get_user_id_filter(session) = NoFilter => is_admin(session)
    /\ (is_logged_in(session) /\ ~is_admin(session)) =>
            get_user_id_filter(session) = OnlyUser(get_current_user(session).id)

(* C26: over any sequence of login(user) and logout() calls, is_logged_in() *)
(* is true exactly when the most recent call was a login, get_current_user() *)
(* is then the user given to that login, and right after a logout the      *)
(* session holds no key at all.                                            *)
C26_SessionFollowsLastCall ==
    /\ is_logged_in(session) <=> last_auth.call = "login"
    /\ last_auth.call = "login" => get_current_user(session) = last_auth.user
    /\ (last_auth.call = "logout" /\ page = "none") =>
            /\ session.keys = {}
            /\ get_current_user(session) = NoUser

\* Ana logged in, opened the incentives page (which left a chart key in the
\* session) and logged out
C26_Witness ==
    /\ last_auth.call = "logout"
    /\ page = "none"
    /\ reply.op = "test_connection"
    /\ reply.found
    /\ session.keys = {}
    /\ ~is_logged_in(session)

\* rows of a sales-query record set with at least one of the problems the
\* report counts
ProblemRows ==
    {i \in 1..Len(Rows) :
        \/ Rows[i].Status_Preco = "SEM_PRECO"
        \/ Rows[i].Valor_Total.m = 0
        \/ Rows[i].Quantidade.m <= 0}

(* C23: registros_invalidos is the total number of problem records: every  *)
(* row without a price, with a zero total or with quantity <= 0 is counted *)
(* in it.                                                                  *)
C23_RegistrosInvalidosCountsAll ==
    validation # <<>> =>
        Report.registros_invalidos = Cardinality(ProblemRows)

-----------------------------------------------------------------------------
(* KPI tables.  kpi_processor.py builds, from the salesperson metrics of   *)
(* calcular_metricas_vendedor, one (Consultor, value) table per KPI label; *)
(* backup.py is the older dashboard, which reads the same tables out of a  *)
(* wide sheet with one column per KPI and salesperson.                     *)

(* KPI_NAMES.values(), in the order of the dict; the third label is        *)
(* written without its accent                                              *)
KPI_NAMES ==
    <<"TOTAL DE PRODUTOS", "TOTAL VENDA RS", "TKT MEDIO SELL OUT", "PERFORMANCE">>

(* COLUMN_NAME_MAP.get(kpi_name, default) *)
COLUMN_NAME_MAP(kpi_name, default) ==
    CASE kpi_name = "TOTAL DE PRODUTOS" -> "Total_Produtos"
      [] kpi_name = "TOTAL VENDA RS" -> "Venda_RS"
      [] kpi_name = "TKT MEDIO SELL OUT" -> "Ticket_Medio"
      [] kpi_name = "PERFORMANCE" -> "Performance"
      [] OTHER -> default

(* df[['Consultor', col_name]] on one row *)
kpi_row(r, col_name) == [c \in {"Consultor", col_name} |-> r[c]]

\* a plausible slip: the metrics table is handed on without the projection
create_kpi_dataframe_unprojected(df_metricas, kpi_name) ==
    IF df_metricas.rows = <<>>
    THEN Table(<<"Consultor", COLUMN_NAME_MAP(kpi_name, "Valor")>>, <<>>)
    ELSE IF COLUMN_NAME_MAP(kpi_name, NULL) \notin Range(df_metricas.cols)
    THEN Table(<<"Consultor", COLUMN_NAME_MAP(kpi_name, NULL)>>, <<>>)
    ELSE df_metricas

(* create_kpi_dataframe(df_metricas, kpi_name) *)
create_kpi_dataframe(df_metricas, kpi_name) ==
    IF df_metricas.rows = <<>>                                  \* lines 46-48
    THEN Table(<<"Consultor", COLUMN_NAME_MAP(kpi_name, "Valor")>>, <<>>)
    ELSE IF COLUMN_NAME_MAP(kpi_name, NULL) \notin Range(df_metricas.cols)
    THEN Table(<<"Consultor", COLUMN_NAME_MAP(kpi_name, NULL)>>, <<>>)
    ELSE Table(<<"Consultor", COLUMN_NAME_MAP(kpi_name, NULL)>>,
               [i \in 1..Len(df_metricas.rows) |->
                    kpi_row(df_metricas.rows[i], COLUMN_NAME_MAP(kpi_name, NULL))])

(* create_all_kpi_dataframes(df_metricas_vendedor) *)
create_all_kpi_dataframes(df_metricas_vendedor) ==
    [kpi_name \in Range(KPI_NAMES) |->
        create_kpi_dataframe(df_metricas_vendedor, kpi_name)]

(* create_kpi_dataframe_map(df_metricas_vendedor) *)
create_kpi_dataframe_map(df_metricas_vendedor) ==
    [kpi_name \in DOMAIN create_all_kpi_dataframes(df_metricas_vendedor) |->
        [df |-> create_all_kpi_dataframes(df_metricas_vendedor)[kpi_name],
         col |-> COLUMN_NAME_MAP(kpi_name, "Valor"),
         alias |-> kpi_name]]

(* the dashboard builds the map from the metrics of the selected stores *)
BuildKpiMap ==
    /\ ~kpi.built
    /\ kpi.path = "metrics"
    /\ kpi' = [kpi EXCEPT !.built = TRUE,
                          !.out = create_kpi_dataframe_map(kpi.input)]
    /\ UNCHANGED <<sources, pc, via, periodos, df_master, result, raw, cell,
                   passes, qualVars, sessVars, connector, incent>>

(* --- the wide-format path of backup.py --- *)

(* KPI_PREFIXES, in the order of the dict: <<prefix, KPI code>>.  Column   *)
(* names are sequences of characters.                                      *)
P_Produtos == <<"P", "r", "o", "d", "u", "t", "o", "s", "_">>
P_Performance == <<"P", "e", "r", "f", "o", "r", "m", "a", "n", "c", "e", "_">>
P_Venda_RS == <<"V", "e", "n", "d", "a", "_", "R", "S", "_">>
P_TKT_Medio == <<"T", "K", "T", "_", "M", "e", "d", "i", "o", "_">>

KPI_PREFIXES ==
    <<<<P_Produtos, "TOTAL DE PRODUTOS">>, <<P_Performance, "PERFORMANCE">>,
      <<P_Venda_RS, "VENDA R$">>, <<P_TKT_Medio, "TICKET MEDIO">>>>

KPI_CODES == {KPI_PREFIXES[i][2] : i \in 1..Len(KPI_PREFIXES)}

(* str.startswith(prefix) *)
startswith(col, prefix) ==
    Len(col) >= Len(prefix) /\ SubSeq(col, 1, Len(prefix)) = prefix

(* str.upper() on one character and on a string *)
UpperChar(c) ==
    IF \E i \in 1..Len(LowerChars) : LowerChars[i] = c
    THEN UpperChars[CHOOSE i \in 1..Len(LowerChars) : LowerChars[i] = c]
    ELSE c

upper(t) == [i \in 1..Len(t) |-> UpperChar(t[i])]

(* col[len(prefix):] *)
after_prefix(col, prefix) == SubSeq(col, Len(prefix) + 1, Len(col))

(* lines 63-68: the name a column adds to consultores_set, under the first *)
(* prefix of KPI_PREFIXES the column starts with                           *)
consultor_names(col) ==
    LET hits == {i \in 1..Len(KPI_PREFIXES) : startswith(col, KPI_PREFIXES[i][1])}
    IN  IF hits = {} THEN {}
        ELSE {upper(after_prefix(col,
                  KPI_PREFIXES[CHOOSE i \in hits : \A j \in hits : i <= j][1]))}

(* kpi_name.replace(' ', '_').replace('R$', 'RS').replace('TKT_', 'Ticket_') *)
new_col_name(kpi_name) ==
    CASE kpi_name = "TOTAL DE PRODUTOS" -> "TOTAL_DE_PRODUTOS"
      [] kpi_name = "PERFORMANCE" -> "PERFORMANCE"
      [] kpi_name = "VENDA R$" -> "VENDA_RS"
      [] kpi_name = "TICKET MEDIO" -> "TICKET_MEDIO"

(* the entry of dynamic_kpi_map for the i-th prefix, lines 73-81 *)
kpi_info_of(df_columns, i) ==
    [cols |-> SelectSeq(df_columns, LAMBDA col : startswith(col, KPI_PREFIXES[i][1])),
     new_col |-> new_col_name(KPI_PREFIXES[i][2]),
     alias |-> KPI_PREFIXES[i][2]]

(* identify_dynamic_metadata(df_columns) *)
identify_dynamic_metadata(df_columns) ==
    [consultores_da_regiao |->
        Sorted(UNION {consultor_names(df_columns[i]) : i \in 1..Len(df_columns)},
               TextLess),
     dynamic_kpi_map |->
        [kpi_name \in KPI_CODES |->
            kpi_info_of(df_columns,
                        CHOOSE i \in 1..Len(KPI_PREFIXES) : KPI_PREFIXES[i][2] = kpi_name)]]

(* df_totais.loc[kpi_code, cols] with its index made a column, lines       *)
(* 189-192: one row per column of the KPI, in the order of the columns     *)
serie_of(df_totais, cols) ==
    [i \in 1..Len(cols) |->
        [Consultor_Raw |-> cols[i], value |-> df_totais.value[cols[i]]]]

(* lines 194-197: the first len(df_kpi) names are written next to the      *)
(* rows; a list of another length than the frame raises ValueError         *)
assign_consultores(serie, consultores_da_regiao, new_col) ==
    IF Len(consultores_da_regiao) < Len(serie) THEN Raised("ValueError")
    ELSE Table(<<"Consultor", new_col>>,
               [i \in 1..Len(serie) |->
                    [Consultor |-> consultores_da_regiao[i],
                     value |-> serie[i].value]])

(* create_dynamic_kpi_dataframe(df_totais, consultores_da_regiao, kpi_code, *)
(* kpi_info) for a sheet with one total row per KPI code                   *)
create_dynamic_kpi_dataframe(df_totais, consultores_da_regiao, kpi_code, kpi_info) ==
    IF kpi_code \notin df_totais.index \/ kpi_info.cols = <<>>
    THEN Table(<<"Consultor", kpi_info.new_col>>, <<>>)        \* lines 176-178
    ELSE assign_consultores(serie_of(df_totais, kpi_info.cols),
                            consultores_da_regiao, kpi_info.new_col)

(* lines 241-245 over the metadata of load_data, line 163 *)
df_kpis_series(sheet, meta) ==
    [kpi_name \in DOMAIN meta.dynamic_kpi_map |->
        create_dynamic_kpi_dataframe(sheet.df_totais, meta.consultores_da_regiao,
                                     kpi_name, meta.dynamic_kpi_map[kpi_name])]

(* the old dashboard loads the sheet and builds its KPI series; it stops   *)
(* with an error when there is no total row or no salesperson (236-238)    *)
BuildLegacyKpi ==
    /\ ~kpi.built
    /\ kpi.path = "legacy"
    /\ kpi' = [kpi EXCEPT
                 !.built = TRUE,
                 !.out = IF kpi.input.df_totais.index = {}
                            \/ identify_dynamic_metadata(kpi.input.columns)
                                    .consultores_da_regiao = <<>>
                         THEN [kpi_name \in {} |-> 0]
                         ELSE df_kpis_series(kpi.input,
                                  identify_dynamic_metadata(kpi.input.columns))]
    /\ UNCHANGED <<sources, pc, via, periodos, df_master, result, raw, cell,
                   passes, qualVars, sessVars, connector, incent>>

(* --- inputs --- *)

(* a row of the salesperson metrics: q products on os service orders *)
MetricRow(v, q, os) ==
    [Consultor |-> v,
     Total_Produtos |-> IntNum(q),
     Venda_RS |-> IntNum(10 * q),
     Total_OS |-> os,
     Ticket_Medio |-> ticket_medio(IntNum(10 * q), os),
     Performance |-> performance(IntNum(q), os)]

MetricRows ==
    {<<>>}
    \cup {<<MetricRow("Ana", q, os)>> : q \in 1..2, os \in 0..1}
    \cup {<<MetricRow("Ana", q, 1), MetricRow("Bruno", p, os)>> :
              q \in 1..2, p \in 1..2, os \in 0..1}

(* metrics tables with every column, and with some KPI columns missing *)
MetricTables ==
    {Table(SelectSeq(vendedor_cols, LAMBDA c : c \notin drop), rows) :
        drop \in SUBSET {"Total_Produtos", "Ticket_Medio", "Performance"},
        rows \in MetricRows}

N_Al == <<"A", "l">>
N_al == <<"a", "l">>
N_Bo == <<"B", "o">>
N_Jo == <<"J", "o">>
Col_Codigo == <<"C", "o", "d", "i", "g", "o">>

WideColumns ==
    <<P_Produtos \o N_Al, P_Produtos \o N_Bo, P_Produtos \o N_Jo,
      P_Venda_RS \o N_Al, P_Venda_RS \o N_Bo, P_Produtos \o N_al, Col_Codigo>>

(* the columns of a wide sheet: up to three of WideColumns in any order *)
WideColumnLists ==
    {cs \in UNION {[1..n -> Range(WideColumns)] : n \in 1..3} :
        \A i, j \in 1..Len(cs) : i # j => cs[i] # cs[j]}

(* the total rows of a sheet: the KPI codes that have one, and the value   *)
(* each column holds (every column another value)                          *)
WideSheets ==
    {[columns |-> cs,
      df_totais |-> [index |-> codes,
                     value |-> [c \in Range(cs) |-> Rank(WideColumns, c)]]] :
        cs \in WideColumnLists,
        codes \in {{}, {"TOTAL DE PRODUTOS"}, {"TOTAL DE PRODUTOS", "VENDA R$"}}}

InitKpi ==
    /\ \/ \E t \in MetricTables :
             kpi = [built |-> FALSE, path |-> "metrics", input |-> t, out |-> <<>>]
       \/ \E w \in WideSheets :
             kpi = [built |-> FALSE, path |-> "legacy", input |-> w, out |-> <<>>]
    /\ raw = NaNCell
    /\ cell = NaNCell
    /\ passes = <<>>
    /\ IdlePipeline
    /\ IdleQuality
    /\ IdleSession
    /\ IdleConnector
    /\ IdleIncent

NextKpi == BuildKpiMap \/ BuildLegacyKpi

SpecKpi == InitKpi /\ [][NextKpi]_vars

(* C21: for every salesperson-metrics table, empty or not, the map of      *)
(* create_kpi_dataframe_map has one entry per KPI label; its 'col' is the  *)
(* column mapped to the label and its 'df' has exactly the columns         *)
(* (Consultor, col); when the metrics have that column, 'df' has one       *)
(* (salesperson, value) row per metrics row, with the value of the column. *)
C21_KpiMapContract ==
    (kpi.built /\ kpi.path = "metrics") =>
        /\ DOMAIN kpi.out = {"TOTAL DE PRODUTOS", "TOTAL VENDA RS",
                             "TKT MEDIO SELL OUT", "PERFORMANCE"}
        /\ kpi.out["TOTAL DE PRODUTOS"].col = "Total_Produtos"
        /\ kpi.out["TOTAL VENDA RS"].col = "Venda_RS"
        /\ kpi.out["TKT MEDIO SELL OUT"].col = "Ticket_Medio"
        /\ kpi.out["PERFORMANCE"].col = "Performance"
        /\ \A l \in DOMAIN kpi.out :
              /\ kpi.out[l].df.err = ""
              /\ kpi.out[l].df.cols = <<"Consultor", kpi.out[l].col>>
              /\ \A i \in 1..Len(kpi.out[l].df.rows) :
                    DOMAIN kpi.out[l].df.rows[i] = {"Consultor", kpi.out[l].col}
              /\ kpi.out[l].col \in Range(kpi.input.cols) =>
                    /\ Len(kpi.out[l].df.rows) = Len(kpi.input.rows)
                    /\ \A i \in 1..Len(kpi.input.rows) :
                          /\ kpi.out[l].df.rows[i].Consultor
                                = kpi.input.rows[i].Consultor
                          /\ kpi.out[l].df.rows[i][kpi.out[l].col]
                                = kpi.input.rows[i][kpi.out[l].col]

\* a map built from metrics of two salespeople that lack one KPI column
C21_Witness ==
    /\ kpi.built
    /\ kpi.path = "metrics"
    /\ Len(kpi.input.rows) = 2
    /\ "Performance" \notin Range(kpi.input.cols)
    /\ kpi.out["PERFORMANCE"].df.rows = <<>>
    /\ Len(kpi.out["TOTAL VENDA RS"].df.rows) = 2

\* the column a value of a wide sheet was read from
WideSource(v) == CHOOSE c \in Range(kpi.input.columns) : kpi.input.df_totais.value[c] = v

(* C22: in the wide-format path, create_dynamic_kpi_dataframe pairs every  *)
(* KPI value with the salesperson whose upper-cased name is the suffix of  *)
(* the column the value was read from, for every order of the columns and  *)
(* every set of salesperson names.                                         *)
C22_LegacyPairsValueWithItsColumn ==
    (kpi.built /\ kpi.path = "legacy") =>
        \A code \in DOMAIN kpi.out :
            /\ kpi.out[code].err = ""
            /\ \A i \in 1..Len(kpi.out[code].rows) :
                  {kpi.out[code].rows[i].Consultor}
                      = consultor_names(WideSource(kpi.out[code].rows[i].value))

-----------------------------------------------------------------------------
(* The month selector.  Sheets of one store whose rows carry dates of      *)
(* several months, of two centuries, and a date that does not parse.       *)

MaxPeriodRows == 2

T_1925_01_20 == <<"1", "9", "2", "5", "/", "0", "1", "/", "2", "0">>

PeriodRows ==
    {Row(v, "P1", "Oleo", "D1", T_10, T_100_00, mes, LojaA) :
        v \in {"Ana", "Bruno"},
        mes \in {T_2025_01_15, T_2025_02_10, T_1925_01_20, T_2025_13_01}}

InitPeriod ==
    /\ \E t \in Seqs(PeriodRows, MaxPeriodRows) : sources = <<Source(1, AllCols, t)>>
    /\ pc = "start"
    /\ via = "none"
    /\ periodos = {}
    /\ df_master = None
    /\ result = NoResult
    /\ raw = NaNCell
    /\ cell = NaNCell
    /\ passes = <<>>
    /\ IdleQuality
    /\ IdleSession
    /\ IdleExt

NextPeriod == RunDashboard

SpecPeriod == InitPeriod /\ [][NextPeriod]_vars

\* what the month selector of the run was filled from
Available == extrair_periodos_disponiveis(load_and_combine_data(sources))

\* the non-null periods of the combined sheets
PeriodsOf(df) == {df.rows[i].Periodo : i \in 1..Len(df.rows)} \ {NaT}

(* C24: extrair_periodos_disponiveis returns the distinct non-null periods *)
(* in ascending order with a label list of the same length, aligned index  *)
(* by index, and the dashboard's conversion of a selected label gives back *)
(* the period the label was produced from: distinct periods never share a  *)
(* label.                                                                  *)
C24_LabelsIdentifyPeriods ==
    (via = "dashboard" /\ pc = "done") =>
        /\ Len(Available.labels) = Len(Available.values)
        /\ Range(Available.values) = PeriodsOf(load_and_combine_data(sources))
        /\ \A i, j \in 1..Len(Available.values) :
              i < j => PeriodLess(Available.values[i], Available.values[j])
        /\ \A i \in 1..Len(Available.values) :
              /\ Available.labels[i] = strftime_b_y(Available.values[i])
              /\ selected_periods(Available, {Available.labels[i]})
                    = {Available.values[i]}
        /\ periodos \subseteq Range(Available.values)

-----------------------------------------------------------------------------
(* The connector.  db_connector.py keeps one DatabaseConnector with a      *)
(* psycopg2 connection pool; every query borrows a connection from the     *)
(* pool inside the get_connection block.  The calls of one script run come *)
(* one after the other.                                                    *)
(*                                                                         *)
(* connector is [instance, initialized, pool, used, gets, puts, news,      *)
(* calls, op, at, conn, raised, last]: cls._instance is set, the instance  *)
(* has the _initialized attribute, _connection_pool is "none" or "open",   *)
(* the connections of the pool that are checked out, the number of         *)
(* connections handed out so far (connection k is the k-th), the           *)
(* connections given back in the order of putconn, the numbers of          *)
(* constructor calls and of finished query calls, and the call in          *)
(* progress: its operation, its position, its conn variable (0 is None),   *)
(* the exception travelling through it and what the last call gave.        *)

MaxConstructs == 2
MaxCalls == 3

(* connection_pool_max, line 34 *)
max_conn == 10

NoConnector ==
    [instance |-> FALSE, initialized |-> FALSE, pool |-> "none", used |-> {},
     gets |-> 0, puts |-> <<>>, news |-> 0, calls |-> 0,
     op |-> "none", at |-> "idle", conn |-> 0, raised |-> "", last |-> "none"]

(* _init_pool(): the pool is created, or the exception of lines 51-66      *)
(* leaves the method and _connection_pool keeps the class default None     *)
init_pool(c, how) ==
    IF how = "ok" THEN [c EXCEPT !.pool = "open"] ELSE c

(* DatabaseConnector(): __new__ makes the instance once and returns it     *)
(* afterwards; __init__ marks it initialized and then creates the pool,    *)
(* when the mark is not there yet                                          *)
construct(c, how) ==
    IF c.initialized
    THEN [c EXCEPT !.instance = TRUE,
                   !.last = "instance"]
    ELSE [init_pool([c EXCEPT !.instance = TRUE, !.initialized = TRUE], how)
            EXCEPT !.last = IF how = "ok" THEN "instance" ELSE how]

Construct ==
    /\ connector.at = "idle"
    /\ connector.news < MaxConstructs
    /\ \E how \in {"ok", "ValueError", "OperationalError"} :
          connector' = [construct(connector, how) EXCEPT !.news = @ + 1]
    /\ UNCHANGED <<sources, pc, via, periodos, df_master, result, raw, cell,
                   passes, qualVars, sessVars, kpi, incent>>

(* a caller that holds the instance starts execute_query or               *)
(* test_connection: line 70 of get_connection                              *)
BeginCall ==
    /\ connector.instance
    /\ connector.at = "idle"
    /\ connector.calls < MaxCalls
    /\ \E op \in {"execute_query", "test_connection"} :
          connector' = [connector EXCEPT !.op = op, !.at = "getconn",
                                         !.conn = 0, !.raised = ""]
    /\ UNCHANGED <<sources, pc, via, periodos, df_master, result, raw, cell,
                   passes, qualVars, sessVars, kpi, incent>>

(* line 72: conn = self._connection_pool.getconn().  Without a pool the    *)
(* attribute access raises; the pool raises PoolError when every           *)
(* connection is out and OperationalError when it cannot connect.          *)
getconn(c, reachable) ==
    IF c.pool = "none"
    THEN [c EXCEPT !.raised = "AttributeError", !.at = "finally"]
    ELSE IF Cardinality(c.used) >= max_conn
    THEN [c EXCEPT !.raised = "PoolError", !.at = "finally"]
    ELSE IF ~reachable
    THEN [c EXCEPT !.raised = "OperationalError", !.at = "finally"]
    ELSE [c EXCEPT !.conn = c.gets + 1,
                   !.gets = c.gets + 1,
                   !.used = c.used \cup {c.gets + 1},
                   !.at = "body"]

GetConn ==
    /\ connector.at = "getconn"
    /\ \E reachable \in BOOLEAN : connector' = getconn(connector, reachable)
    /\ UNCHANGED <<sources, pc, via, periodos, df_master, result, raw, cell,
                   passes, qualVars, sessVars, kpi, incent>>

(* the body of the with block: pd.read_sql_query of line 103 or the        *)
(* cursor of lines 119-123, which ends normally or raises                  *)
Body ==
    /\ connector.at = "body"
    /\ \E failing \in BOOLEAN :
          connector' = [connector EXCEPT
                          !.raised = IF failing THEN "psycopg2.Error" ELSE "",
                          !.at = "finally"]
    /\ UNCHANGED <<sources, pc, via, periodos, df_master, result, raw, cell,
                   passes, qualVars, sessVars, kpi, incent>>

\* a plausible slip: the connection is given back after a normal end only
putconn_unless_raised(c) ==
    IF c.conn # 0 /\ c.raised = ""
    THEN [c EXCEPT !.used = c.used \ {c.conn}, !.puts = Append(c.puts, c.conn)]
    ELSE c

(* lines 74-76: finally, if conn: putconn(conn) *)
putconn_finally(c) ==
    IF c.conn # 0
    THEN [c EXCEPT !.used = c.used \ {c.conn}, !.puts = Append(c.puts, c.conn)]
    ELSE c

(* what the call gives its caller: execute_query re-raises (105-114),      *)
(* test_connection reports False (125-127)                                 *)
call_result(c) ==
    IF c.op = "execute_query"
    THEN (IF c.raised = "" THEN "df" ELSE "raised")
    ELSE (IF c.raised = "" THEN "True" ELSE "False")

ExitBlock ==
    /\ connector.at = "finally"
    /\ connector' = [putconn_finally(connector) EXCEPT
                        !.at = "idle",
                        !.last = call_result(connector),
                        !.calls = @ + 1]
    /\ UNCHANGED <<sources, pc, via, periodos, df_master, result, raw, cell,
                   passes, qualVars, sessVars, kpi, incent>>

(* the class is loaded and DatabaseConnector() was not called yet *)
InitPool ==
    /\ connector = NoConnector
    /\ raw = NaNCell
    /\ cell = NaNCell
    /\ passes = <<>>
    /\ IdlePipeline
    /\ IdleQuality
    /\ IdleSession
    /\ IdleKpi
    /\ IdleIncent

NextPool == Construct \/ BeginCall \/ GetConn \/ Body \/ ExitBlock

SpecPool == InitPool /\ [][NextPool]_vars

\* how often connection k was given back
PutCount(k) == Cardinality({i \in 1..Len(connector.puts) : connector.puts[i] = k})

(* C27: every connection obtained through get_connection is returned to    *)
(* the pool exactly once when its block ends, normally or by an exception: *)
(* after any sequence of execute_query and test_connection calls no        *)
(* connection remains checked out.                                         *)
C27_ConnectionsReturnedOnce ==
    /\ connector.at \in {"idle", "getconn"} =>
          /\ connector.used = {}
          /\ \A k \in 1..connector.gets : PutCount(k) = 1
    /\ connector.at \in {"body", "finally"} =>
          /\ connector.used = {connector.conn} \ {0}
          /\ \A k \in 1..connector.gets :
                PutCount(k) = IF k = connector.conn THEN 0 ELSE 1
    /\ \A i \in 1..Len(connector.puts) : connector.puts[i] \in 1..connector.gets

\* three calls ended, one of them an execute_query that raised inside the
\* block, and each of their connections is back in the pool
C27_Witness ==
    /\ connector.at = "idle"
    /\ connector.calls = 3
    /\ connector.gets = 3
    /\ connector.last = "raised"
    /\ connector.raised = "psycopg2.Error"
    /\ connector.used = {}
    /\ Len(connector.puts) = 3

(* C28: in every reachable state of the DatabaseConnector singleton, an    *)
(* instance marked initialized has its connection pool; after a            *)
(* construction whose pool creation failed, the next DatabaseConnector()   *)
(* attempts the pool creation again.                                       *)
C28_InitializedHasPool ==
    connector.initialized => connector.pool = "open"

-----------------------------------------------------------------------------
(* The incentives page, pages/incentivos.py lines 157-389.  df_employee    *)
(* has one row per rewarded employee, store and function text; df_monthly  *)
(* one row per employee and month.  A function text is a sequence of       *)
(* characters, <<>> the missing value; the other columns are atoms.        *)

MaxEmployeeRows == 2

(* str.split(sep) for a separator of several characters *)
RECURSIVE split_sep(_, _)
split_sep(s, sep) ==
    LET hits == {i \in 1..(Len(s) - Len(sep) + 1) : SubSeq(s, i, i + Len(sep) - 1) = sep}
    IN  IF hits = {} THEN <<s>>
        ELSE LET i == CHOOSE i \in hits : \A j \in hits : i <= j
             IN  <<SubSeq(s, 1, i - 1)>> \o split_sep(SubSeq(s, i + Len(sep), Len(s)), sep)

Sep_funcao == <<" ", "/", " ">>

(* 'Não informado', written without its tilde *)
Nao_informado == <<"N", "a", "o", " ", "i", "n", "f", "o", "r", "m", "a", "d", "o">>

(* the stripped parts of one function text, lines 43-44 and 56-57 *)
funcao_parts(valor) ==
    {strip(split_sep(valor, Sep_funcao)[k]) : k \in 1..Len(split_sep(valor, Sep_funcao))}

(* extrair_funcoes_unicas(df_employee) *)
extrair_funcoes_unicas(df_employee) ==
    Sorted(UNION {funcao_parts(df_employee[i].funcao) :
                     i \in {j \in 1..Len(df_employee) : df_employee[j].funcao # <<>>}}
               \ {<<>>, Nao_informado},
           TextLess)

(* the mask of lines 54-59 on one row *)
funcao_mask(x, funcoes_selecionadas) ==
    IF x # <<>>
    THEN \E f \in funcao_parts(x) : f \in funcoes_selecionadas
    ELSE FALSE

(* filtrar_por_funcao(df_employee, funcoes_selecionadas) *)
filtrar_por_funcao(df_employee, funcoes_selecionadas) ==
    IF funcoes_selecionadas = {} THEN df_employee               \* lines 51-52
    ELSE SelectSeq(df_employee, LAMBDA r : funcao_mask(r.funcao, funcoes_selecionadas))

(* df_monthly[df_monthly['employee_id'].isin(ids_filtrados)], 219-220 *)
monthly_of(df_monthly, df_filtrado) ==
    SelectSeq(df_monthly,
              LAMBDA m : \E i \in 1..Len(df_filtrado) :
                            df_filtrado[i].employee_id = m.employee_id)

(* the rows a left merge on 'vendedor' makes of one monthly row: one per   *)
(* employee row of that name, in their order, or one without a store       *)
RECURSIVE merge_row(_, _)
merge_row(m, df_employee) ==
    IF df_employee = <<>> THEN <<>>
    ELSE (IF Head(df_employee).vendedor = m.vendedor
          THEN <<[m EXCEPT !.loja = Head(df_employee).loja]>>
          ELSE <<>>) \o merge_row(m, Tail(df_employee))

(* df_monthly.merge(df_employee[['vendedor', 'loja']], on='vendedor',      *)
(* how='left'), charts.py lines 286-290                                    *)
RECURSIVE merge_loja(_, _)
merge_loja(df_monthly, df_employee) ==
    IF df_monthly = <<>> THEN <<>>
    ELSE (IF merge_row(Head(df_monthly), df_employee) = <<>>
          THEN <<Head(df_monthly)>>
          ELSE merge_row(Head(df_monthly), df_employee))
         \o merge_loja(Tail(df_monthly), df_employee)

RECURSIVE sum_col(_, _)
sum_col(rows, col) ==
    IF rows = <<>> THEN 0 ELSE Head(rows)[col] + sum_col(Tail(rows), col)

MesOrder == <<"2025-01", "2025-02">>
LojaOrder == <<"L1", "L2">>

(* the order of the groups after sort_values('mes'): by month, and within  *)
(* a month as groupby left them, by store                                  *)
GroupLess(a, b) ==
    \/ Rank(MesOrder, a.mes) < Rank(MesOrder, b.mes)
    \/ a.mes = b.mes /\ Rank(LojaOrder, a.loja) < Rank(LojaOrder, b.loja)

(* one group of groupby(['loja', 'mes_display', 'mes']).agg(sum) *)
loja_mes_row(key, df_with_loja) ==
    [loja |-> key[1], mes_display |-> key[2], mes |-> key[3],
     valor_mes |-> sum_col(SelectSeq(df_with_loja,
                      LAMBDA r : <<r.loja, r.mes_display, r.mes>> = key), "valor_mes"),
     quantidade_mes |-> sum_col(SelectSeq(df_with_loja,
                      LAMBDA r : <<r.loja, r.mes_display, r.mes>> = key), "quantidade_mes")]

(* charts.py lines 292-297: rows without a store are in no group *)
lojas_mes(df_with_loja) ==
    Sorted({loja_mes_row(<<df_with_loja[i].loja, df_with_loja[i].mes_display,
                           df_with_loja[i].mes>>, df_with_loja) :
                i \in {j \in 1..Len(df_with_loja) : df_with_loja[j].loja # NULL}},
           GroupLess)

(* create_monthly_stores_comparison_chart(df_monthly, df_employee): the    *)
(* table the bars are drawn from; the empty figure has none               *)
create_monthly_stores_comparison_chart(df_monthly, df_employee) ==
    IF df_monthly = <<>> \/ df_employee = <<>> THEN <<>>       \* lines 276-284
    ELSE lojas_mes(merge_loja(df_monthly, df_employee))

(* the page after the data is loaded, with the functions the user leaves   *)
(* selected in the multiselect of lines 206-211                            *)
incentivos_page(df_employee, df_monthly, funcoes_selecionadas) ==
    [loaded |-> TRUE,
     df_employee |-> df_employee,
     df_monthly |-> df_monthly,
     stopped |-> FALSE,
     todas_funcoes |-> extrair_funcoes_unicas(df_employee),
     funcoes_selecionadas |-> funcoes_selecionadas,
     df_filtrado |-> filtrar_por_funcao(df_employee, funcoes_selecionadas),
     df_monthly_filtrado |->
        monthly_of(df_monthly, filtrar_por_funcao(df_employee, funcoes_selecionadas)),
     df_lojas_mes |-> create_monthly_stores_comparison_chart(df_monthly, df_employee)]

(* lines 161-168: without employee rows the page stops *)
incentivos_stopped(df_employee, df_monthly) ==
    [loaded |-> TRUE,
     df_employee |-> df_employee,
     df_monthly |-> df_monthly,
     stopped |-> TRUE,
     todas_funcoes |-> <<>>,
     funcoes_selecionadas |-> {},
     df_filtrado |-> <<>>,
     df_monthly_filtrado |-> <<>>,
     df_lojas_mes |-> <<>>]

ShowIncentivos ==
    /\ ~incent.loaded
    /\ IF incent.df_employee = <<>>
       THEN incent' = incentivos_stopped(incent.df_employee, incent.df_monthly)
       ELSE \E sel \in SUBSET Range(extrair_funcoes_unicas(incent.df_employee)) :
               incent' = incentivos_page(incent.df_employee, incent.df_monthly, sel)
    /\ UNCHANGED <<sources, pc, via, periodos, df_master, result, raw, cell,
                   passes, qualVars, sessVars, kpi, connector>>

(* --- inputs --- *)

F_A == <<"A">>
F_B == <<"B">>
F_A_B == <<"A", " ", "/", " ", "B">>

EmployeeRow(id, vendedor, funcao, loja) ==
    [employee_id |-> id, vendedor |-> vendedor, funcao |-> funcao, loja |-> loja,
     valor_total_incentivos |-> 100]

EmployeeRows ==
    {EmployeeRow(e[1], e[2], f, l) :
        e \in {<<1, "Ana">>, <<2, "Bruno">>},
        f \in {<<>>, F_A, F_B, F_A_B, Nao_informado},
        l \in {"L1", "L2"}}

MonthlyRow(id, vendedor, mes, mes_display, valor) ==
    [employee_id |-> id, vendedor |-> vendedor, mes |-> mes,
     mes_display |-> mes_display, quantidade_mes |-> 1, valor_mes |-> valor,
     loja |-> NULL]

MonthlyTables ==
    {<<>>,
     <<MonthlyRow(1, "Ana", "2025-01", "Jan/25", 100)>>,
     <<MonthlyRow(1, "Ana", "2025-01", "Jan/25", 100),
       MonthlyRow(1, "Ana", "2025-02", "Feb/25", 50)>>,
     <<MonthlyRow(1, "Ana", "2025-01", "Jan/25", 100),
       MonthlyRow(2, "Bruno", "2025-01", "Jan/25", 30)>>}

(* the rows of the employee query are groups: no two are alike *)
EmployeeTables ==
    {es \in Seqs(EmployeeRows, MaxEmployeeRows) :
        \A i, j \in 1..Len(es) : i # j => es[i] # es[j]}

InitIncent ==
    /\ \E es \in EmployeeTables : \E ms \in MonthlyTables :
          incent = [loaded |-> FALSE, df_employee |-> es, df_monthly |-> ms]
    /\ raw = NaNCell
    /\ cell = NaNCell
    /\ passes = <<>>
    /\ IdlePipeline
    /\ IdleQuality
    /\ IdleSession
    /\ IdleKpi
    /\ IdleConnector

NextIncent == ShowIncentivos

SpecIncent == InitIncent /\ [][NextIncent]_vars

(* C29: on the incentives page, selecting every function offered by        *)
(* extrair_funcoes_unicas makes filtrar_por_funcao return every employee   *)
(* row, the same rows as the empty selection; enlarging the selected set   *)
(* of functions never removes an employee from the result.                 *)
C29_FunctionFilterMonotone ==
    (incent.loaded /\ ~incent.stopped) =>
        /\ incent.funcoes_selecionadas = Range(incent.todas_funcoes) =>
              incent.df_filtrado = incent.df_employee
        /\ \A more \in SUBSET Range(incent.todas_funcoes) :
              incent.funcoes_selecionadas \subseteq more =>
                  Range(incent.df_filtrado)
                      \subseteq Range(filtrar_por_funcao(incent.df_employee, more))

(* C30: in the per-store comparison, attaching a store to each monthly row *)
(* neither duplicates nor drops value: the sum of valor_mes over all       *)
(* (store, month) groups equals the sum of valor_mes over the monthly      *)
(* rows, for every employee table, also with employees listed under        *)
(* several stores or functions.  The monthly rows are those of employees  *)
(* of the table, as the two queries select the same incentives.            *)
C30_StoreComparisonKeepsTotal ==
    (/\ incent.loaded
     /\ incent.df_monthly # <<>>
     /\ \A i \in 1..Len(incent.df_monthly) :
           \E j \in 1..Len(incent.df_employee) :
              incent.df_employee[j].employee_id = incent.df_monthly[i].employee_id) =>
        sum_col(incent.df_lojas_mes, "valor_mes")
            = sum_col(incent.df_monthly, "valor_mes")

====
